---- MODULE Spec2Model ----
(***************************************************************************)
(* A model of the demonstration scripts of the repository.  Every script   *)
(* is an independent program: no script imports another.  The module       *)
(* therefore holds one group of variables per script and one               *)
(* specification per script (or per operation of a script); while one      *)
(* script runs, the variables of the others rest at their parked values.   *)
(*                                                                         *)
(* Text is modelled as a sequence of code points, so that ord(c) - 48 and  *)
(* chr(d + 48) of the sources are arithmetic on the elements.              *)
(***************************************************************************)
EXTENDS Integers, Sequences, FiniteSets, TLC

VARIABLES
    \* days_002__war_Calculator.py
    calc_x, calc_y, calc_op, calc_pc, calc_result,
    div_a, div_b, div_i, decs, remainder, count, quotient,
    \* days_021__stack_wrestling.py
    stack_a, stack_b, q_out, stack_in, stack_out, ref_out,
    \* days_004__linierly_linked_hashmap.py
    head, hm_call, hm_out, hm_dict,
    \* days_008__non_binary_search.py
    data, target, search_pc, found_index,
    \* days_009__comrade_fibonacci.py
    fib_n, fib_pc, fib_out, fast_n, fast_out, fast_cache,
    \* days_001__FizzBuzz.py
    fb_n, fb_i, stdout,
    \* days_006__Cursive_for_loop.py
    current_index, cf_args, cf_stack, cf_calls, cf_status,
    \* days_023__linked_disks.py
    node_dir, ll_head, ll_out, ll_appended,
    \* the __main__ blocks of days_011__singleton_aint_single.py,
    \* days_012__in_a_pickle_data.py and days_023__linked_disks.py
    demo, demo_pc, demo_i, demo_size, demo_out, singleton_file, database_file,
    \* days_020__de_Q_stack.py
    wq_queue, wq_call, wq_out, wq_ref, wq_pushes, wq_pops,
    \* days_011__singleton_aint_single.py: calls on FileSingleton objects
    fs_call, fs_out, fs_data,
    \* days_013__permanent_rest_API.py
    items, api_body, api_out,
    \* days_017__Reversed_bit_roles.py
    rev_text, rev_pc, rev_out,
    \* days_022__binary__tree_street.py: tree is the attribute _tree
    tree, tree_call, tree_out, tree_inserted

calcVars == <<calc_x, calc_y, calc_op, calc_pc, calc_result,
              div_a, div_b, div_i, decs, remainder, count, quotient>>

queueVars == <<stack_a, stack_b, q_out, stack_in, stack_out, ref_out>>

mapVars == <<head, hm_call, hm_out, hm_dict>>

searchVars == <<data, target, search_pc, found_index>>
fibVars == <<fib_n, fib_pc, fib_out, fast_n, fast_out, fast_cache>>
fizzVars == <<fb_n, fb_i, stdout>>
cursiveVars == <<current_index, cf_args, cf_stack, cf_calls, cf_status>>
listVars == <<node_dir, ll_head, ll_out, ll_appended>>
demoVars == <<demo, demo_pc, demo_i, demo_size, demo_out, singleton_file, database_file>>
wrongEndVars == <<wq_queue, wq_call, wq_out, wq_ref, wq_pushes, wq_pops>>
singletonVars == <<fs_call, fs_out, fs_data>>
apiVars == <<items, api_body, api_out>>
reverseVars == <<rev_text, rev_pc, rev_out>>
treeVars == <<tree, tree_call, tree_out, tree_inserted>>

vars == <<calcVars, queueVars, mapVars, searchVars, fibVars, fizzVars, cursiveVars,
          listVars, demoVars, wrongEndVars, singletonVars,
          apiVars, reverseVars, treeVars>>

(***************************************************************************)
(* Bounds of the model.                                                    *)
(***************************************************************************)
MaxIntLen == 2
MaxFracLen == 1
MaxCount == 11
MaxDivLen == 4
MaxQueue == 3
MaxValue == 2
MaxKey == 3
MaxData == 3
MaxElement == 3
MaxFib == 20
MaxFizz == 15
MaxRange == 2
MaxStep == 2
MaxAppends == 4
MaxNodeValue == 3
MaxPushes == 4
MaxPushed == 3
MaxKeyLen == 1
MaxValueLen == 1

(***************************************************************************)
(* Code points.                                                            *)
(***************************************************************************)
ZERO == 48
DOT == 46
MINUS == 45

\* The outcome of a call: the value returned, None, or the exception raised.
Returned(v) == <<v>>
None == <<>>
Raised(e) == <<"raised", e>>

Max(m, n) == IF m >= n THEN m ELSE n

RECURSIVE Pow10(_)
Pow10(n) == IF n <= 0 THEN 1 ELSE 10 * Pow10(n - 1)

(***************************************************************************)
(* Parked values: the state of a script that is not the one running.       *)
(***************************************************************************)
CalcParked ==
    /\ calc_x = <<>> /\ calc_y = <<>> /\ calc_op = "" /\ calc_pc = "parked"
    /\ calc_result = <<>> /\ div_a = <<>> /\ div_b = <<>> /\ div_i = 0
    /\ decs = 0 /\ remainder = <<>> /\ count = 0 /\ quotient = <<>>

QueueParked ==
    /\ stack_a = <<>> /\ stack_b = <<>> /\ q_out = None
    /\ stack_in = <<>> /\ stack_out = <<>> /\ ref_out = None

Keys == 1..MaxKey
Values == 1..MaxValue

MapParked ==
    /\ head = <<>> /\ hm_call = <<>> /\ hm_out = None
    /\ hm_dict = [k \in Keys |-> None]

SearchParked ==
    data = <<>> /\ target = 0 /\ search_pc = "parked" /\ found_index = None

FibParked ==
    /\ fib_n = 0 /\ fib_pc = "parked" /\ fib_out = None
    /\ fast_n = 0 /\ fast_out = None /\ fast_cache = <<>>

FizzParked == fb_n = 0 /\ fb_i = 0 /\ stdout = <<>>

CursiveParked ==
    /\ current_index = 0 /\ cf_args = <<0, 0, 1>> /\ cf_stack = <<>>
    /\ cf_calls = <<>> /\ cf_status = "parked"

\* No directory, no list object.
ListParked ==
    node_dir = None /\ ll_head = None /\ ll_out = None /\ ll_appended = <<>>

\* No script chosen, neither singleton.txt nor database.pkl exists.
DemoParked ==
    /\ demo = "" /\ demo_pc = "parked" /\ demo_i = 0 /\ demo_size = 0
    /\ demo_out = <<>> /\ singleton_file = None /\ database_file = None

WrongEndParked ==
    /\ wq_queue = <<>> /\ wq_call = "" /\ wq_out = None
    /\ wq_ref = <<>> /\ wq_pushes = 0 /\ wq_pops = 0

SingletonParked == fs_call = <<>> /\ fs_out = None /\ fs_data = <<>>

ApiParked == items = <<>> /\ api_body = <<>> /\ api_out = None

ReverseParked == rev_text = <<>> /\ rev_pc = "parked" /\ rev_out = None

TreeParked == tree = <<>> /\ tree_call = <<>> /\ tree_out = None /\ tree_inserted = <<>>

Parked(running) ==
    /\ IF "calc" \in running THEN TRUE ELSE CalcParked
    /\ IF "queue" \in running THEN TRUE ELSE QueueParked
    /\ IF "map" \in running THEN TRUE ELSE MapParked
    /\ IF "search" \in running THEN TRUE ELSE SearchParked
    /\ IF "fib" \in running THEN TRUE ELSE FibParked
    /\ IF "fizz" \in running THEN TRUE ELSE FizzParked
    /\ IF "cursive" \in running THEN TRUE ELSE CursiveParked
    /\ IF "list" \in running THEN TRUE ELSE ListParked
    /\ IF "demo" \in running THEN TRUE ELSE DemoParked
    /\ IF "wrong_end" \in running THEN TRUE ELSE WrongEndParked
    /\ IF "singleton" \in running THEN TRUE ELSE SingletonParked
    /\ IF "api" \in running THEN TRUE ELSE ApiParked
    /\ IF "reverse" \in running THEN TRUE ELSE ReverseParked
    /\ IF "tree" \in running THEN TRUE ELSE TreeParked

Untouched(running) ==
    /\ IF "calc" \in running THEN TRUE ELSE UNCHANGED calcVars
    /\ IF "queue" \in running THEN TRUE ELSE UNCHANGED queueVars
    /\ IF "map" \in running THEN TRUE ELSE UNCHANGED mapVars
    /\ IF "search" \in running THEN TRUE ELSE UNCHANGED searchVars
    /\ IF "fib" \in running THEN TRUE ELSE UNCHANGED fibVars
    /\ IF "fizz" \in running THEN TRUE ELSE UNCHANGED fizzVars
    /\ IF "cursive" \in running THEN TRUE ELSE UNCHANGED cursiveVars
    /\ IF "list" \in running THEN TRUE ELSE UNCHANGED listVars
    /\ IF "demo" \in running THEN TRUE ELSE UNCHANGED demoVars
    /\ IF "wrong_end" \in running THEN TRUE ELSE UNCHANGED wrongEndVars
    /\ IF "singleton" \in running THEN TRUE ELSE UNCHANGED singletonVars
    /\ IF "api" \in running THEN TRUE ELSE UNCHANGED apiVars
    /\ IF "reverse" \in running THEN TRUE ELSE UNCHANGED reverseVars
    /\ IF "tree" \in running THEN TRUE ELSE UNCHANGED treeVars

(***************************************************************************)
(* days_002__war_Calculator.py: the string calculator.                     *)
(***************************************************************************)
PRECISION == 5

Reverse(s) == [i \in 1..Len(s) |-> s[Len(s) + 1 - i]]

Contains(s, c) == \E i \in 1..Len(s) : s[i] = c

\* s.index(c): the 0-based position of the first c in s (c occurs in s).
IndexOf(s, c) == (CHOOSE i \in 1..Len(s) : s[i] = c /\ \A j \in 1..(i - 1) : s[j] # c) - 1

\* s.count(c)
CountOf(s, c) == Cardinality({i \in 1..Len(s) : s[i] = c})

\* s.replace(c, "")
Without(s, c) == SelectSeq(s, LAMBDA ch : ch # c)

Repeat(c, n) == [i \in 1..n |-> c]

RECURSIVE lstrip(_, _)
lstrip(s, c) == IF s # <<>> /\ Head(s) = c THEN lstrip(Tail(s), c) ELSE s

RECURSIVE rstrip(_, _)
rstrip(s, c) ==
    IF s # <<>> /\ s[Len(s)] = c THEN rstrip(SubSeq(s, 1, Len(s) - 1), c) ELSE s

strip_leading_zeros(s) ==
    IF lstrip(s, ZERO) # <<>> THEN lstrip(s, ZERO) ELSE <<ZERO>>

normalize_decimal(s) ==
    IF Contains(s, DOT) THEN rstrip(rstrip(s, ZERO), DOT) ELSE s

align_decimals(a, b) ==
    LET a1 == IF ~Contains(a, DOT) THEN a \o <<DOT, ZERO>> ELSE a
        b1 == IF ~Contains(b, DOT) THEN b \o <<DOT, ZERO>> ELSE b
        da == Len(a1) - IndexOf(a1, DOT) - 1
        db == Len(b1) - IndexOf(b1, DOT) - 1
    IN  IF da > db THEN <<a1, b1 \o Repeat(ZERO, da - db)>>
        ELSE IF db > da THEN <<a1 \o Repeat(ZERO, db - da), b1>>
        ELSE <<a1, b1>>

\* The body of the loop of add_strings over the reversed operands, from
\* index i (0-based) on; yields the list res and the last carry.
RECURSIVE AddLoop(_, _, _, _, _)
AddLoop(a, b, i, carry, res) ==
    IF i >= Max(Len(a), Len(b)) THEN [res |-> res, carry |-> carry]
    ELSE LET da == IF i < Len(a) /\ a[i + 1] # DOT THEN a[i + 1] - 48 ELSE 0
             db == IF i < Len(b) /\ b[i + 1] # DOT THEN b[i + 1] - 48 ELSE 0
             total == da + db + carry
         IN  IF (i < Len(a) /\ a[i + 1] = DOT) \/ (i < Len(b) /\ b[i + 1] = DOT)
             THEN AddLoop(a, b, i + 1, carry, Append(res, DOT))
             ELSE AddLoop(a, b, i + 1, total \div 10, Append(res, (total % 10) + 48))

\* The add_strings that forgets the carry out of the top digit.
AddFinalCarry_dropped(res, carry) == res

AddFinalCarry(res, carry) == IF carry # 0 THEN Append(res, carry + 48) ELSE res

add_strings(a, b) ==
    LET al == IF Contains(a, DOT) \/ Contains(b, DOT) THEN align_decimals(a, b) ELSE <<a, b>>
        out == AddLoop(Reverse(al[1]), Reverse(al[2]), 0, 0, <<>>)
    IN  normalize_decimal(Reverse(AddFinalCarry(out.res, out.carry)))

\* The body of the loop of subtract_strings over the reversed operands.
RECURSIVE SubLoop(_, _, _, _, _)
SubLoop(a, b, i, borrow, res) ==
    IF i >= Len(a) THEN res
    ELSE IF a[i + 1] = DOT THEN SubLoop(a, b, i + 1, borrow, Append(res, DOT))
    ELSE LET da == a[i + 1] - 48 - borrow
             db == IF i < Len(b) /\ b[i + 1] # DOT THEN b[i + 1] - 48 ELSE 0
         IN  IF da < db
             THEN SubLoop(a, b, i + 1, 1, Append(res, (da + 10) - db + 48))
             ELSE SubLoop(a, b, i + 1, 0, Append(res, da - db + 48))

subtract_strings(a, b) ==
    LET al == IF Contains(a, DOT) \/ Contains(b, DOT) THEN align_decimals(a, b) ELSE <<a, b>>
    IN  normalize_decimal(strip_leading_zeros(
            Reverse(SubLoop(Reverse(al[1]), Reverse(al[2]), 0, 0, <<>>))))

\* One row of multiply_strings: a times the digit db, over the reversed a.
RECURSIVE MulRow(_, _, _, _, _)
MulRow(a, db, k, carry, temp) ==
    IF k >= Len(a) THEN (IF carry # 0 THEN Append(temp, carry + 48) ELSE temp)
    ELSE LET prod == (a[k + 1] - 48) * (db - 48) + carry
         IN  MulRow(a, db, k + 1, prod \div 10, Append(temp, (prod % 10) + 48))

RECURSIVE MulLoop(_, _, _, _)
MulLoop(a, b, i, res) ==
    IF i >= Len(b) THEN res
    ELSE MulLoop(a, b, i + 1,
                 add_strings(res, Reverse(MulRow(a, b[i + 1], 0, 0, Repeat(ZERO, i)))))

\* res[:-n] and res[-n:] of Python, n > 0.
SliceHead(s, n) == SubSeq(s, 1, Len(s) - n)
SliceTail(s, n) == SubSeq(s, Max(1, Len(s) - n + 1), Len(s))

multiply_strings(a, b) ==
    LET d == CountOf(a, DOT) + CountOf(b, DOT)
        res == MulLoop(Reverse(Without(a, DOT)), Reverse(Without(b, DOT)), 0, <<ZERO>>)
    IN  normalize_decimal(IF d # 0 THEN SliceHead(res, d) \o <<DOT>> \o SliceTail(res, d)
                          ELSE res)

ERR == <<69, 82, 82>>

\* string_calculator for the operators that return at once; division is the
\* loop of divide_enter and divide_step below.
string_calculator(x, y, op) ==
    IF op = "+" THEN add_strings(x, y)
    ELSE IF op = "-" THEN subtract_strings(x, y)
    ELSE IF op = "*" THEN multiply_strings(x, y)
    ELSE ERR

\* The operands the scripts are run on: digit strings with an optional
\* fractional part, and the operands of the examples of the module.
DigitChars == {48, 53, 57}

Digits(n) == UNION {[1..k -> DigitChars] : k \in 1..n}

Numerals ==
    {ip \o fp : ip \in Digits(MaxIntLen),
                fp \in {<<>>} \cup {<<DOT>> \o f : f \in Digits(MaxFracLen)}}

Examples ==
    {<< <<49, 50, 46, 53>>, <<51, 46, 52>>, "+" >>,
     << <<50, 48>>, <<55>>, "-" >>,
     << <<51, 46, 50>>, <<49, 46, 53>>, "*" >>,
     << <<49, 48>>, <<52>>, "/" >>}

CalcInit(op) ==
    /\ calc_op = op
    /\ \E in \in {<<x, y, op>> : x \in Numerals, y \in Numerals}
                  \cup {e \in Examples : e[3] = op} :
          calc_x = in[1] /\ calc_y = in[2]
    /\ calc_pc = "call"
    /\ calc_result = <<>>
    /\ div_a = <<>> /\ div_b = <<>> /\ div_i = 0 /\ decs = 0
    /\ remainder = <<>> /\ count = 0 /\ quotient = <<>>

Calculate ==
    /\ calc_pc = "call"
    /\ calc_op # "/"
    /\ calc_result' = string_calculator(calc_x, calc_y, calc_op)
    /\ calc_pc' = "done"
    /\ UNCHANGED <<calc_x, calc_y, calc_op, div_a, div_b, div_i, decs,
                   remainder, count, quotient>>
    /\ Untouched({"calc"})

FracLen(s) == IF Contains(s, DOT) THEN Len(s) - IndexOf(s, DOT) - 1 ELSE 0

\* divide_strings up to its for loop: the check of the divisor, the scale
\* of the result and the padded dividend.
divide_enter ==
    /\ calc_pc = "call"
    /\ calc_op = "/"
    /\ IF calc_y = <<ZERO>>
       THEN /\ calc_pc' = "ZeroDivisionError"
            /\ UNCHANGED <<div_a, div_b, decs, remainder, quotient>>
       ELSE /\ decs' = FracLen(calc_x) - FracLen(calc_y)
            /\ div_a' = Without(calc_x, DOT) \o Repeat(ZERO, PRECISION)
            /\ div_b' = Without(calc_y, DOT)
            /\ quotient' = <<>>
            /\ remainder' = <<ZERO>>
            /\ calc_pc' = "for"
    /\ UNCHANGED <<calc_x, calc_y, calc_op, calc_result, div_i, count>>
    /\ Untouched({"calc"})

\* The text divide_strings returns from the quotient digits.
divide_result(q, d) ==
    LET res == strip_leading_zeros(q)
    IN  normalize_decimal(
            IF d + PRECISION > 0
            THEN SliceHead(res, d + PRECISION) \o <<DOT>> \o SliceTail(res, d + PRECISION)
            ELSE res)

\* count is read only by chr(count + 48) after the while loop; it is kept
\* at MaxCount once it has got there.
Bump(n) == IF n < MaxCount THEN n + 1 ELSE n

\* One step of the loops of divide_strings: at "for" the next digit is
\* taken (or the result returned when none is left), at "while" the
\* condition of the while loop is evaluated and its body or its exit run.
divide_step ==
    /\ calc_pc \in {"for", "while"}
    /\ IF calc_pc = "for"
       THEN IF div_i < Len(div_a)
            THEN /\ remainder' = strip_leading_zeros(Append(remainder, div_a[div_i + 1]))
                 /\ count' = 0
                 /\ div_i' = div_i + 1
                 /\ calc_pc' = "while"
                 /\ UNCHANGED <<quotient, calc_result>>
            ELSE /\ calc_result' = divide_result(quotient, decs)
                 /\ calc_pc' = "done"
                 /\ UNCHANGED <<remainder, count, div_i, quotient>>
       ELSE IF subtract_strings(remainder, div_b)[1] # MINUS
            THEN /\ remainder' = subtract_strings(remainder, div_b)
                 /\ count' = Bump(count)
                 /\ UNCHANGED <<quotient, calc_pc, div_i, calc_result>>
            ELSE /\ quotient' = Append(quotient, count + 48)
                 /\ calc_pc' = "for"
                 /\ UNCHANGED <<remainder, count, div_i, calc_result>>
    /\ UNCHANGED <<calc_x, calc_y, calc_op, div_a, div_b, decs>>
    /\ Untouched({"calc"})

InitAdd == CalcInit("+") /\ Parked({"calc"})
NextAdd == Calculate
SpecAdd == InitAdd /\ [][NextAdd]_vars

\* The divisions tried: the example, and the operands of at most MaxDivLen
\* characters together.
InitDiv ==
    /\ CalcInit("/")
    /\ Len(calc_x) + Len(calc_y) <= MaxDivLen \/ <<calc_x, calc_y, "/">> \in Examples
    /\ Parked({"calc"})
NextDiv == divide_enter \/ divide_step
SpecDiv == InitDiv /\ [][NextDiv]_vars /\ WF_vars(NextDiv)

(***************************************************************************)
(* The number a numeral denotes, for the statements about the calculator.  *)
(***************************************************************************)
IsDigit(c) == c \in 48..57

\* A numeral: digits, with at most one point, which has a digit before it.
IsNumeral(s) ==
    /\ s # <<>>
    /\ \A i \in 1..Len(s) : IsDigit(s[i]) \/ s[i] = DOT
    /\ CountOf(s, DOT) <= 1
    /\ IsDigit(s[1])

RECURSIVE DigitsValue(_)
DigitsValue(s) ==
    IF s = <<>> THEN 0 ELSE 10 * DigitsValue(SubSeq(s, 1, Len(s) - 1)) + (s[Len(s)] - 48)

IntPart(s) == IF Contains(s, DOT) THEN SubSeq(s, 1, IndexOf(s, DOT)) ELSE s
FracPart(s) == IF Contains(s, DOT) THEN SubSeq(s, IndexOf(s, DOT) + 2, Len(s)) ELSE <<>>

\* 10^k times the number the numeral s denotes (s has at most k fractional digits).
NumberOf(s, k) ==
    DigitsValue(IntPart(s)) * Pow10(k) + DigitsValue(FracPart(s)) * Pow10(k - Len(FracPart(s)))

Scale == MaxFracLen + 1

\* No trailing zero after the point and no trailing point.
Normalized(s) == Contains(s, DOT) => s[Len(s)] \notin {ZERO, DOT}

\* C6: string_calculator(a, b, "+") returns a numeral that denotes exactly
\* a + b (carries cross the decimal point), with no trailing fractional zero
\* and no trailing point; "12.5" + "3.4" gives "15.9".
C6_AddExact ==
    (calc_op = "+" /\ calc_pc = "done") =>
        /\ IsNumeral(calc_result)
        /\ Len(FracPart(calc_result)) <= Scale
        /\ NumberOf(calc_result, Scale) = NumberOf(calc_x, Scale) + NumberOf(calc_y, Scale)
        /\ Normalized(calc_result)
        /\ (calc_x = <<49, 50, 46, 53>> /\ calc_y = <<51, 46, 52>>
                => calc_result = <<49, 53, 46, 57>>)

\* "9.5" + "0.5" has returned "10": the carry has crossed the point and the
\* fractional zero and the point are gone.
C6_Witness ==
    /\ calc_op = "+" /\ calc_pc = "done"
    /\ calc_x = <<57, 46, 53>> /\ calc_y = <<48, 46, 53>>
    /\ calc_result = <<49, 48>>

\* The quotient of x by y cut to PRECISION fractional digits, as a numeral r.
IsQuotient(r, x, y) ==
    /\ IsNumeral(r)
    /\ Len(FracPart(r)) <= PRECISION
    /\ Normalized(r)
    /\ LET q == NumberOf(r, PRECISION)
           n == NumberOf(x, Scale) * Pow10(PRECISION)
           d == NumberOf(y, Scale)
       IN  q * d <= n /\ n < (q + 1) * d

\* C1: for a divisor that is not zero, string_calculator(a, b, "/") returns
\* the quotient a / b to PRECISION fractional digits in normalized form;
\* "10" / "4" returns "2.5".  (The operands never change, so the divisor is
\* tested inside the eventuality, QuotientReturned.)
QuotientReturned ==
    \/ calc_op # "/"
    \/ NumberOf(calc_y, Scale) = 0
    \/ /\ calc_pc = "done"
       /\ IsQuotient(calc_result, calc_x, calc_y)
       /\ (calc_x = <<49, 48>> /\ calc_y = <<52>> => calc_result = <<50, 46, 53>>)

C1_DivideReturnsQuotient == <>QuotientReturned

(***************************************************************************)
(* days_021__stack_wrestling.py: QueueUsingTwoFightingStacks and the       *)
(* reference QueueUsingTwoStacksCorrect, driven by the same calls.  A      *)
(* Python list used as a stack is a sequence whose top is its last         *)
(* element.                                                                *)
(***************************************************************************)
\* while src: dst.append(src.pop()) -- the list dst afterwards (src is empty).
MoveAll(src, dst) == dst \o Reverse(src)

Pop(stack) == SubSeq(stack, 1, Len(stack) - 1)
Top(stack) == stack[Len(stack)]

\* QueueUsingTwoFightingStacks.enqueue: the two lists afterwards.
fighting_enqueue(a, b, value) ==
    LET b1 == MoveAll(a, b)
        a1 == Append(<<>>, value)
    IN  [a |-> MoveAll(b1, a1), b |-> <<>>]

\* QueueUsingTwoFightingStacks.dequeue on a non-empty stack_a.
fighting_dequeue(a, b) ==
    LET b1 == MoveAll(a, b)
    IN  [value |-> Top(b1), a |-> MoveAll(Pop(b1), <<>>), b |-> <<>>]

\* QueueUsingTwoFightingStacks.peek on a non-empty stack_a.
fighting_peek(a, b) ==
    LET b1 == MoveAll(a, b)
    IN  [value |-> Top(b1), a |-> MoveAll(b1, <<>>), b |-> <<>>]

\* The transfer QueueUsingTwoStacksCorrect makes when stack_out is empty.
Transfer(sin, sout) ==
    IF sout = <<>> THEN [sin |-> <<>>, sout |-> MoveAll(sin, sout)]
    ELSE [sin |-> sin, sout |-> sout]

QueueInit ==
    /\ stack_a = <<>> /\ stack_b = <<>> /\ q_out = None
    /\ stack_in = <<>> /\ stack_out = <<>> /\ ref_out = None

enqueue(value) ==
    /\ Len(stack_a) < MaxQueue
    /\ Len(stack_in) + Len(stack_out) < MaxQueue
    /\ stack_a' = fighting_enqueue(stack_a, stack_b, value).a
    /\ stack_b' = fighting_enqueue(stack_a, stack_b, value).b
    /\ q_out' = None
    /\ stack_in' = Append(stack_in, value)
    /\ ref_out' = None
    /\ UNCHANGED stack_out
    /\ Untouched({"queue"})

dequeue ==
    /\ IF stack_a = <<>>
       THEN /\ q_out' = Raised("IndexError")
            /\ UNCHANGED <<stack_a, stack_b>>
       ELSE /\ q_out' = Returned(fighting_dequeue(stack_a, stack_b).value)
            /\ stack_a' = fighting_dequeue(stack_a, stack_b).a
            /\ stack_b' = fighting_dequeue(stack_a, stack_b).b
    /\ LET t == Transfer(stack_in, stack_out)
       IN  /\ stack_in' = t.sin
           /\ IF t.sout = <<>>
              THEN /\ ref_out' = Raised("IndexError")
                   /\ stack_out' = t.sout
              ELSE /\ ref_out' = Returned(Top(t.sout))
                   /\ stack_out' = Pop(t.sout)
    /\ Untouched({"queue"})

peek ==
    /\ IF stack_a = <<>>
       THEN /\ q_out' = Raised("IndexError")
            /\ UNCHANGED <<stack_a, stack_b>>
       ELSE /\ q_out' = Returned(fighting_peek(stack_a, stack_b).value)
            /\ stack_a' = fighting_peek(stack_a, stack_b).a
            /\ stack_b' = fighting_peek(stack_a, stack_b).b
    /\ LET t == Transfer(stack_in, stack_out)
       IN  /\ stack_in' = t.sin
           /\ stack_out' = t.sout
           /\ ref_out' = IF t.sout = <<>> THEN Raised("IndexError")
                         ELSE Returned(Top(t.sout))
    /\ Untouched({"queue"})

InitQueue == QueueInit /\ Parked({"queue"})
NextQueue == (\E value \in Values : enqueue(value)) \/ dequeue \/ peek
SpecQueue == InitQueue /\ [][NextQueue]_vars

\* C2: QueueUsingTwoFightingStacks is a FIFO queue: every dequeue returns
\* what the reference QueueUsingTwoStacksCorrect returns for the same calls
\* (the earliest element enqueued and not yet dequeued).
C2_DequeueIsFifo ==
    [][dequeue => q_out' = ref_out']_vars

(***************************************************************************)
(* days_004__linierly_linked_hashmap.py: HashMap, a chain of nodes.  The   *)
(* chain that starts at self.head is the sequence of its nodes in link     *)
(* order (empty when head is None).  hm_dict is a history variable: the    *)
(* value of the most recent put of each key that no remove has followed.   *)
(***************************************************************************)
Node(key, value) == [key |-> key, value |-> value]

\* The while loop of put, with current at the i-th node of the chain.
RECURSIVE PutLoop(_, _, _, _)
PutLoop(chain, i, key, value) ==
    IF chain[i].key = key THEN [chain EXCEPT ![i].value = value]
    ELSE IF i = Len(chain) THEN Append(chain, Node(key, value))
    ELSE PutLoop(chain, i + 1, key, value)

hashmap_put(chain, key, value) ==
    IF chain = <<>> THEN <<Node(key, value)>> ELSE PutLoop(chain, 1, key, value)

\* The while loop of get, with current at the i-th node (None past the end).
RECURSIVE GetLoop(_, _, _)
GetLoop(chain, i, key) ==
    IF i > Len(chain) THEN None
    ELSE IF chain[i].key = key THEN Returned(chain[i].value)
    ELSE GetLoop(chain, i + 1, key)

hashmap_get(chain, key) == GetLoop(chain, 1, key)

Unlink(chain, i) == SubSeq(chain, 1, i - 1) \o SubSeq(chain, i + 1, Len(chain))

\* The while loop of remove, with current at the i-th node and previous
\* at the node before it.
\* The remove that unlinks the node and everything after it.
RECURSIVE RemoveLoop_cutTail(_, _, _)
RemoveLoop_cutTail(chain, i, key) ==
    IF i > Len(chain) THEN [chain |-> chain, found |-> FALSE]
    ELSE IF chain[i].key = key THEN [chain |-> SubSeq(chain, 1, i - 1), found |-> TRUE]
    ELSE RemoveLoop_cutTail(chain, i + 1, key)

RECURSIVE RemoveLoop(_, _, _)
RemoveLoop(chain, i, key) ==
    IF i > Len(chain) THEN [chain |-> chain, found |-> FALSE]
    ELSE IF chain[i].key = key THEN [chain |-> Unlink(chain, i), found |-> TRUE]
    ELSE RemoveLoop(chain, i + 1, key)

hashmap_remove(chain, key) ==
    IF chain = <<>> THEN [chain |-> chain, found |-> FALSE]
    ELSE IF chain[1].key = key THEN [chain |-> Tail(chain), found |-> TRUE]
    ELSE RemoveLoop(chain, 2, key)

RECURSIVE ContainsLoop(_, _, _)
ContainsLoop(chain, i, key) ==
    IF i > Len(chain) THEN FALSE
    ELSE IF chain[i].key = key THEN TRUE
    ELSE ContainsLoop(chain, i + 1, key)

hashmap_contains(chain, key) == ContainsLoop(chain, 1, key)

MapInit ==
    /\ head = <<>> /\ hm_call = <<>> /\ hm_out = None
    /\ hm_dict = [k \in Keys |-> None]

put(key, value) ==
    /\ head' = hashmap_put(head, key, value)
    /\ hm_call' = <<"put", key>>
    /\ hm_out' = None
    /\ hm_dict' = [hm_dict EXCEPT ![key] = Returned(value)]
    /\ Untouched({"map"})

get(key) ==
    /\ hm_call' = <<"get", key>>
    /\ hm_out' = hashmap_get(head, key)
    /\ UNCHANGED <<head, hm_dict>>
    /\ Untouched({"map"})

remove(key) ==
    /\ head' = hashmap_remove(head, key).chain
    /\ hm_call' = <<"remove", key>>
    /\ hm_out' = Returned(hashmap_remove(head, key).found)
    /\ hm_dict' = [hm_dict EXCEPT ![key] = None]
    /\ Untouched({"map"})

contains(key) ==
    /\ hm_call' = <<"contains", key>>
    /\ hm_out' = Returned(hashmap_contains(head, key))
    /\ UNCHANGED <<head, hm_dict>>
    /\ Untouched({"map"})

InitMap == MapInit /\ Parked({"map"})
NextMap ==
    \E key \in Keys :
        \/ \E value \in Values : put(key, value)
        \/ get(key)
        \/ remove(key)
        \/ contains(key)
SpecMap == InitMap /\ [][NextMap]_vars

\* C3: HashMap is an ordinary mapping: get(k) returns the value of the most
\* recent put(k, v) that no remove(k) has followed and None otherwise,
\* contains(k) is true exactly when there is such a put, remove(k) returns
\* True exactly when k was present and leaves the value of every other key
\* as it was.
C3_OrdinaryMapping ==
    [][\A k \in Keys :
         /\ get(k) => hm_out' = hm_dict[k]
         /\ contains(k) => hm_out' = Returned(hm_dict[k] # None)
         /\ remove(k) =>
               /\ hm_out' = Returned(hm_dict[k] # None)
               /\ hashmap_get(head', k) = None
               /\ \A other \in Keys \ {k} :
                     hashmap_get(head', other) = hashmap_get(head, other)
         /\ \A v \in Values : put(k, v) =>
               /\ hashmap_get(head', k) = Returned(v)
               /\ \A other \in Keys \ {k} :
                     hashmap_get(head', other) = hashmap_get(head, other)]_vars

\* remove of a key in the middle of the chain has returned True, and the
\* keys before and after it are still mapped.
C3_Witness ==
    /\ hm_call = <<"remove", 2>> /\ hm_out = Returned(TRUE)
    /\ Len(head) = 2 /\ head[1].key = 1 /\ head[2].key = 3
    /\ hashmap_get(head, 1) = hm_dict[1] /\ hashmap_get(head, 3) = hm_dict[3]

(***************************************************************************)
(* days_008__non_binary_search.py: paranoid_binary_search.  Indexes are    *)
(* those of Python, from 0: data[i] of the source is data[i + 1] here.     *)
(***************************************************************************)
\* Step 1, the while loop of the binary search: found_index after it.
RECURSIVE BinaryLoop(_, _, _, _)
BinaryLoop(d, t, left, right) ==
    IF left > right THEN None
    ELSE LET mid == (left + right) \div 2
         IN  IF d[mid + 1] = t THEN Returned(mid)
             ELSE IF d[mid + 1] < t THEN BinaryLoop(d, t, mid + 1, right)
             ELSE BinaryLoop(d, t, left, mid - 1)

\* Step 2, the for loop over every element, from idx on: the first match
\* overrides found_index.
\* The search that trusts the binary search: no second pass.
LinearLoop_trusting(d, t, idx, found) == found

RECURSIVE LinearLoop(_, _, _, _)
LinearLoop(d, t, idx, found) ==
    IF idx >= Len(d) THEN found
    ELSE IF d[idx + 1] = t THEN Returned(idx)
    ELSE LinearLoop(d, t, idx + 1, found)

paranoid_binary_search(d, t) ==
    LinearLoop(d, t, 0, BinaryLoop(d, t, 0, Len(d) - 1))

IsSorted(d) == \A i \in 1..(Len(d) - 1) : d[i] <= d[i + 1]

SortedLists ==
    {d \in UNION {[1..n -> 1..MaxElement] : n \in 0..MaxData} : IsSorted(d)}

SearchInit ==
    /\ data \in SortedLists
    /\ target \in 1..MaxElement
    /\ search_pc = "call"
    /\ found_index = None

search ==
    /\ search_pc = "call"
    /\ found_index' = paranoid_binary_search(data, target)
    /\ search_pc' = "done"
    /\ UNCHANGED <<data, target>>
    /\ Untouched({"search"})

InitSearch == SearchInit /\ Parked({"search"})
NextSearch == search
SpecSearch == InitSearch /\ [][NextSearch]_vars

\* C5: for sorted data and a target that occurs in it, paranoid_binary_search
\* returns the index of the first occurrence of the target, as a plain
\* left-to-right linear search does, also when the target occurs several
\* times.
C5_FirstOccurrence ==
    (search_pc = "done" /\ \E i \in 1..Len(data) : data[i] = target) =>
        \E i \in 1..Len(data) :
            /\ data[i] = target
            /\ \A j \in 1..(i - 1) : data[j] # target
            /\ found_index = Returned(i - 1)

\* The target fills the list: the binary search finds the middle one, the
\* call returns the first.
C5_Witness ==
    /\ search_pc = "done"
    /\ data = <<2, 2, 2>> /\ target = 2
    /\ BinaryLoop(data, target, 0, Len(data) - 1) = Returned(1)
    /\ found_index = Returned(0)

(***************************************************************************)
(* days_009__comrade_fibonacci.py: the naive fibonacci and the memoized    *)
(* fib_fast.  fast_cache is the table of lru_cache: it lasts from one call *)
(* of fib_fast to the next.                                                *)
(***************************************************************************)
\* The recursion whose second base case returns 0.
RECURSIVE fibonacci_base(_)
fibonacci_base(n) ==
    IF n = 0 THEN 0
    ELSE IF n = 1 THEN 0
    ELSE fibonacci_base(n - 1) + fibonacci_base(n - 2)

RECURSIVE fibonacci(_)
fibonacci(n) ==
    IF n = 0 THEN 0
    ELSE IF n = 1 THEN 1
    ELSE fibonacci(n - 1) + fibonacci(n - 2)

\* fib_fast under lru_cache: the value and the cache after the call.
RECURSIVE fib_fast(_, _)
fib_fast(n, cache) ==
    IF n \in DOMAIN cache THEN [value |-> cache[n], cache |-> cache]
    ELSE IF n <= 1 THEN [value |-> n, cache |-> (n :> n) @@ cache]
    ELSE LET r1 == fib_fast(n - 1, cache)
             r2 == fib_fast(n - 2, r1.cache)
         IN  [value |-> r1.value + r2.value,
              cache |-> (n :> (r1.value + r2.value)) @@ r2.cache]

FibInit ==
    /\ fib_n \in 0..MaxFib
    /\ fib_pc = "call"
    /\ fib_out = None
    /\ fast_n = 0 /\ fast_out = None /\ fast_cache = <<>>

call_fibonacci ==
    /\ fib_pc = "call"
    /\ fib_out' = Returned(fibonacci(fib_n))
    /\ fib_pc' = "done"
    /\ UNCHANGED <<fib_n, fast_n, fast_out, fast_cache>>
    /\ Untouched({"fib"})

call_fib_fast(n) ==
    /\ fib_pc = "done"
    /\ fast_n' = n
    /\ fast_out' = Returned(fib_fast(n, fast_cache).value)
    /\ fast_cache' = fib_fast(n, fast_cache).cache
    /\ UNCHANGED <<fib_n, fib_pc, fib_out>>
    /\ Untouched({"fib"})

InitFib == FibInit /\ Parked({"fib"})
NextFib == call_fibonacci \/ \E n \in 0..MaxFib : call_fib_fast(n)
SpecFib == InitFib /\ [][NextFib]_vars

\* The Fibonacci numbers, by iteration: F(0) = 0, F(1) = 1, F(n) = F(n-1) + F(n-2).
RECURSIVE FibPair(_)
FibPair(n) == IF n = 0 THEN <<0, 1>> ELSE LET p == FibPair(n - 1) IN <<p[2], p[1] + p[2]>>

\* C7: for 0 <= n <= 20 the naive fibonacci(n) returns what the memoized
\* fib_fast(n) returns, the Fibonacci number F(n).
C7_NaiveMatchesMemoized ==
    /\ fib_out # None => fib_out = Returned(FibPair(fib_n)[1])
    /\ fast_out # None => fast_out = Returned(FibPair(fast_n)[1])
    /\ (fib_out # None /\ fast_out # None /\ fast_n = fib_n) => fib_out = fast_out

\* Both have been called with 20 and both have returned 6765.
C7_Witness ==
    /\ fib_n = 20 /\ fast_n = 20
    /\ fib_out = Returned(6765) /\ fast_out = Returned(6765)

(***************************************************************************)
(* days_001__FizzBuzz.py: fizzbuzz(n).  stdout is the list of the lines    *)
(* printed so far, fb_i the last value the loop variable i has taken.      *)
(***************************************************************************)
FizzBuzzText == <<70, 105, 122, 122, 66, 117, 122, 122>>
FizzText == <<70, 105, 122, 122>>
BuzzText == <<66, 117, 122, 122>>

\* str(i) for an integer i >= 0.
RECURSIVE str(_)
str(i) == IF i < 10 THEN <<i + 48>> ELSE Append(str(i \div 10), (i % 10) + 48)

\* The conditional that tests 3 before 15.
fizzbuzz_line_3first(i) ==
    IF i % 3 = 0 THEN FizzText
    ELSE IF i % 15 = 0 THEN FizzBuzzText
    ELSE IF i % 5 = 0 THEN BuzzText
    ELSE str(i)

\* The nested conditional expression of the loop body.
fizzbuzz_line(i) ==
    IF i % 15 = 0 THEN FizzBuzzText
    ELSE IF i % 3 = 0 THEN FizzText
    ELSE IF i % 5 = 0 THEN BuzzText
    ELSE str(i)

FizzInit ==
    /\ fb_n \in 0..MaxFizz
    /\ fb_i = 0
    /\ stdout = <<>>

\* One turn of the loop for i in range(1, n + 1).
fizzbuzz ==
    /\ fb_i < fb_n
    /\ fb_i' = fb_i + 1
    /\ stdout' = Append(stdout, fizzbuzz_line(fb_i + 1))
    /\ UNCHANGED fb_n
    /\ Untouched({"fizz"})

InitFizz == FizzInit /\ Parked({"fizz"})
NextFizz == fizzbuzz
SpecFizz == InitFizz /\ [][NextFizz]_vars

\* The line the claim asks for i.
IsLineOf(line, i) ==
    IF i % 15 = 0 THEN line = FizzBuzzText
    ELSE IF i % 3 = 0 THEN line = FizzText
    ELSE IF i % 5 = 0 THEN line = BuzzText
    ELSE /\ line # <<>>
         /\ \A k \in 1..Len(line) : IsDigit(line[k])
         /\ line[1] # ZERO
         /\ DigitsValue(line) = i

\* C8: fizzbuzz(n) prints one line for each i = 1..n in increasing order:
\* "FizzBuzz" when 15 divides i, else "Fizz" when 3 does, else "Buzz" when 5
\* does, else the decimal numeral of i.
C8_FizzBuzzLines ==
    /\ Len(stdout) = fb_i
    /\ fb_i <= fb_n
    /\ \A i \in 1..Len(stdout) : IsLineOf(stdout[i], i)
    /\ (~ENABLED fizzbuzz) => Len(stdout) = fb_n

\* fizzbuzz(15) has returned: line 15 is "FizzBuzz", 9 "Fizz", 10 "Buzz", 7 "7".
C8_Witness ==
    /\ fb_n = 15 /\ fb_i = 15
    /\ stdout[15] = FizzBuzzText /\ stdout[9] = FizzText
    /\ stdout[10] = BuzzText /\ stdout[7] = <<55>>

(***************************************************************************)
(* days_006__Cursive_for_loop.py: cursive_for.  current_index is the       *)
(* global of the module; cf_stack is the call stack, one frame for each    *)
(* call of cursive_for that has not returned, the running one last;        *)
(* cf_calls lists the arguments the action has been invoked with.  The     *)
(* action is one that records its argument and does nothing else.          *)
(***************************************************************************)
\* The depth at which Python raises RecursionError (1000 by default), here
\* a depth no loop over a range of the bounds needs.
RecursionLimit == 2 * MaxRange + 4

Frame(start, end, step, pc) == [start |-> start, end |-> end, step |-> step, pc |-> pc]

\* cf_args: the arguments of the outermost call.
CursiveInit ==
    /\ current_index = 0
    /\ cf_args \in ((-MaxRange)..MaxRange) \X ((-MaxRange)..MaxRange) \X (1..MaxStep)
    /\ cf_stack = <<Frame(cf_args[1], cf_args[2], cf_args[3], "enter")>>
    /\ cf_calls = <<>>
    /\ cf_status = "running"

\* "if current_index == 0: current_index = start"
initialised(index, start) == IF index = 0 THEN start ELSE index

\* A call of cursive_for runs from its entry to its return or to the
\* recursive call it makes.  At the recursion limit the call of the action
\* is the one that raises RecursionError, which no frame catches.
cursive_enter ==
    /\ cf_stack # <<>>
    /\ LET f == cf_stack[Len(cf_stack)]
           index == initialised(current_index, f.start)
       IN  /\ f.pc = "enter"
           /\ IF index >= f.end
              THEN /\ current_index' = 0
                   /\ cf_stack' = Pop(cf_stack)
                   /\ cf_status' = IF Len(cf_stack) = 1 THEN "returned" ELSE cf_status
                   /\ UNCHANGED cf_calls
              ELSE IF Len(cf_stack) >= RecursionLimit
              THEN /\ current_index' = index
                   /\ cf_stack' = <<>>
                   /\ cf_status' = "RecursionError"
                   /\ UNCHANGED cf_calls
              ELSE /\ cf_calls' = Append(cf_calls, index)
                   /\ current_index' = index + f.step
                   /\ cf_stack' = Append([cf_stack EXCEPT ![Len(cf_stack)].pc = "called"],
                                         Frame(f.start, f.end, f.step, "enter"))
                   /\ UNCHANGED cf_status
    /\ UNCHANGED cf_args
    /\ Untouched({"cursive"})

\* The recursive call has returned: so does the caller.
cursive_return ==
    /\ cf_stack # <<>>
    /\ cf_stack[Len(cf_stack)].pc = "called"
    /\ cf_stack' = Pop(cf_stack)
    /\ cf_status' = IF Len(cf_stack) = 1 THEN "returned" ELSE cf_status
    /\ UNCHANGED <<current_index, cf_args, cf_calls>>
    /\ Untouched({"cursive"})

InitCursive == CursiveInit /\ Parked({"cursive"})
NextCursive == cursive_enter \/ cursive_return
SpecCursive == InitCursive /\ [][NextCursive]_vars

\* list(range(start, end, step)) for step >= 1.
RECURSIVE Range(_, _, _)
Range(start, end, step) ==
    IF start >= end THEN <<>> ELSE <<start>> \o Range(start + step, end, step)

IsPrefix(p, q) == Len(p) <= Len(q) /\ SubSeq(q, 1, Len(p)) = p

\* C9: called while current_index is 0, with step >= 1 and an action that
\* neither raises nor calls cursive_for, cursive_for invokes the action on
\* exactly the elements of range(start, end, step), in order, once each, and
\* then returns.
C9_LoopsOverRange ==
    cf_status \in {"running", "returned", "RecursionError"} =>
        /\ cf_status # "RecursionError"
        /\ IsPrefix(cf_calls, Range(cf_args[1], cf_args[2], cf_args[3]))
        /\ cf_status = "returned" => cf_calls = Range(cf_args[1], cf_args[2], cf_args[3])

(***************************************************************************)
(* days_023__linked_disks.py: FileNodeLinkedList.  node_dir is the         *)
(* directory linked_list_nodes: None while it does not exist, else         *)
(* <<files>> with files the function from the names of the files in it to  *)
(* their contents.  A file holds the two lines value=<int> and             *)
(* next=<filename or NONE>, kept as the record of the two fields after the *)
(* "=".  ll_head is self.head, a file name or None.  ll_appended is a      *)
(* history variable: the values appended so far and not deleted since, in  *)
(* order.                                                                  *)
(*                                                                         *)
(* The walks along next follow files: a walk that comes back to a file it  *)
(* has read never ends (the loop has no other exit), and a walk that       *)
(* reaches a name with no file raises FileNotFoundError.                   *)
(***************************************************************************)
\* f"node_{value}.txt"
node_filename(value) == <<"node_", value, ".txt">>

NONE == <<"NONE">>

Files == node_dir[1]

\* _write_node: the files afterwards.
write_node(files, filename, value, next_node) ==
    (filename :> [value |-> value, next |-> IF next_node # None THEN next_node ELSE NONE])
        @@ files

\* _read_node: (value, next), next None for NONE.
read_node(files, filename) ==
    [value |-> files[filename].value,
     next |-> IF files[filename].next = NONE THEN None ELSE files[filename].next]

Hangs == <<"hangs", "forever">>

\* append: the loop that looks for the tail, from current; seen counts the
\* files read so far.
RECURSIVE FindTail(_, _, _)
FindTail(files, current, seen) ==
    IF current \notin DOMAIN files THEN Raised("FileNotFoundError")
    ELSE IF seen > Cardinality(DOMAIN files) THEN Hangs
    ELSE IF read_node(files, current).next = None THEN Returned(current)
    ELSE FindTail(files, read_node(files, current).next, seen + 1)

\* traverse: the while loop from current, with the values read so far.
RECURSIVE TraverseLoop(_, _, _)
TraverseLoop(files, current, values) ==
    IF current = None THEN Returned(values)
    ELSE IF current \notin DOMAIN files THEN Raised("FileNotFoundError")
    ELSE IF Len(values) > Cardinality(DOMAIN files) THEN Hangs
    ELSE TraverseLoop(files, read_node(files, current).next,
                      Append(values, read_node(files, current).value))

traverse(files, first) == TraverseLoop(files, first, <<>>)

Remove(files, filename) == [f \in DOMAIN files \ {filename} |-> files[f]]

\* append: self.head, the files and the outcome of the call afterwards.
list_append(files, first, value) ==
    LET filename == node_filename(value)
    IN  IF first = None
        THEN [head |-> filename, files |-> write_node(files, filename, value, None),
              out |-> None]
        ELSE LET tail == FindTail(files, first, 1)
             IN  IF Len(tail) # 1 THEN [head |-> first, files |-> files, out |-> tail]
                 ELSE LET current == tail[1]
                          files1 == write_node(files, filename, value, None)
                          val == read_node(files1, current).value
                      IN  [head |-> first,
                           files |-> write_node(files1, current, val, filename),
                           out |-> None]

\* delete: the while loop from current, with prev the file read before it.
RECURSIVE DeleteLoop(_, _, _, _, _, _)
DeleteLoop(files, first, current, prev, value, seen) ==
    IF current = None THEN [head |-> first, files |-> files, out |-> Raised("ValueError")]
    ELSE IF current \notin DOMAIN files
    THEN [head |-> first, files |-> files, out |-> Raised("FileNotFoundError")]
    ELSE IF seen > Cardinality(DOMAIN files)
    THEN [head |-> first, files |-> files, out |-> Hangs]
    ELSE LET node == read_node(files, current)
         IN  IF node.value = value
             THEN IF prev = None
                  THEN [head |-> node.next, files |-> Remove(files, current), out |-> None]
                  ELSE [head |-> first,
                        files |-> Remove(write_node(files, prev, read_node(files, prev).value,
                                                    node.next),
                                         current),
                        out |-> None]
             ELSE DeleteLoop(files, first, node.next, current, value, seen + 1)

list_delete(files, first, value) == DeleteLoop(files, first, first, None, value, 1)

\* os.makedirs(NODE_DIR, exist_ok=True)
makedirs(dir) == IF dir = None THEN <<<<>>>> ELSE dir

\* A fresh list object over an empty directory.
ListInit ==
    /\ node_dir = makedirs(None)
    /\ ll_head = None
    /\ ll_out = None
    /\ ll_appended = <<>>

append(value) ==
    /\ Len(ll_appended) < MaxAppends
    /\ ll_out # Hangs
    /\ ll_head' = list_append(Files, ll_head, value).head
    /\ node_dir' = <<list_append(Files, ll_head, value).files>>
    /\ ll_out' = list_append(Files, ll_head, value).out
    /\ ll_appended' = Append(ll_appended, value)
    /\ Untouched({"list"})

list_traverse ==
    /\ ll_out # Hangs
    /\ ll_out' = traverse(Files, ll_head)
    /\ UNCHANGED <<node_dir, ll_head, ll_appended>>
    /\ Untouched({"list"})

InitList == ListInit /\ Parked({"list"})
NextList == (\E value \in 1..MaxNodeValue : append(value)) \/ list_traverse
SpecList == InitList /\ [][NextList]_vars

\* s without its first element equal to value.
RemoveFirst(s, value) ==
    IF \E i \in 1..Len(s) : s[i] = value
    THEN LET first == CHOOSE i \in 1..Len(s) : s[i] = value /\ \A j \in 1..(i - 1) : s[j] # value
         IN  SubSeq(s, 1, first - 1) \o SubSeq(s, first + 1, Len(s))
    ELSE s

delete(value) ==
    /\ ll_out # Hangs
    /\ ll_head' = list_delete(Files, ll_head, value).head
    /\ node_dir' = <<list_delete(Files, ll_head, value).files>>
    /\ ll_out' = list_delete(Files, ll_head, value).out
    /\ ll_appended' = RemoveFirst(ll_appended, value)
    /\ Untouched({"list"})

NextDelete ==
    \/ \E value \in 1..MaxNodeValue : append(value)
    \/ list_traverse
    \/ \E value \in 1..MaxNodeValue : delete(value)

SpecDelete == InitList /\ [][NextDelete]_vars

\* C10: after any sequence of append calls on a fresh list in an empty
\* directory, traverse() returns exactly the appended values, in the order
\* they were appended, also when a value was appended more than once.
C10_TraverseReturnsAppended ==
    [][list_traverse => ll_out' = Returned(ll_appended)]_vars

(***************************************************************************)
(* days_011__singleton_aint_single.py: FileSingleton.  singleton_file is   *)
(* the file singleton.txt: None while it does not exist, else <<text>>     *)
(* with text its contents.  A dict is the sequence of its (key, value)     *)
(* pairs in insertion order.                                               *)
(***************************************************************************)
NEWLINE == 10
RETURN == 13
EQUALS == 61

\* The characters str.strip() removes.
Whitespace ==
    {9, 10, 11, 12, 13, 28, 29, 30, 31, 32, 133, 160, 5760, 8232, 8233, 8239, 8287, 12288}
        \cup (8192..8202)

HasKey(d, key) == \E i \in 1..Len(d) : d[i][1] = key

\* d[key] = value
DictSet(d, key, value) ==
    IF HasKey(d, key)
    THEN [i \in 1..Len(d) |-> IF d[i][1] = key THEN <<key, value>> ELSE d[i]]
    ELSE Append(d, <<key, value>>)

\* d.get(key): the outcome, None when the key is missing.
DictGet(d, key) ==
    IF HasKey(d, key) THEN Returned(d[CHOOSE i \in 1..Len(d) : d[i][1] = key][2]) ELSE None

\* line.strip()
strip(line) ==
    LET inner == {i \in 1..Len(line) : line[i] \notin Whitespace}
    IN  IF inner = {} THEN <<>>
        ELSE SubSeq(line, CHOOSE i \in inner : \A j \in inner : i <= j,
                          CHOOSE i \in inner : \A j \in inner : i >= j)

\* The end of the line that starts at p: the position of its terminator, or
\* one past the text when the last line has none.
LineEnd(text, p) ==
    IF \E i \in p..Len(text) : text[i] \in {NEWLINE, RETURN}
    THEN CHOOSE i \in p..Len(text) :
            /\ text[i] \in {NEWLINE, RETURN}
            /\ \A j \in p..(i - 1) : text[j] \notin {NEWLINE, RETURN}
    ELSE Len(text) + 1

\* A text file is read with universal newlines: \r\n and \r end a line as
\* \n does.
LineNext(text, e) ==
    IF e < Len(text) /\ text[e] = RETURN /\ text[e + 1] = NEWLINE THEN e + 2 ELSE e + 1

\* line.split("=", 1) of a line that contains "=".
split(line) ==
    <<SubSeq(line, 1, IndexOf(line, EQUALS)),
      SubSeq(line, IndexOf(line, EQUALS) + 2, Len(line))>>

\* _read_file: the loop over the lines of the file, from position p.  (The
\* test on Len is always true: it makes TLC evaluate the dict of this turn
\* before it goes on to the next line, instead of piling up the turns.)
RECURSIVE ReadLines(_, _, _)
ReadLines(text, p, d) ==
    IF p > Len(text) THEN d
    ELSE LET line == strip(SubSeq(text, p, LineEnd(text, p) - 1))
             data_ == IF Contains(line, EQUALS)
                      THEN DictSet(d, split(line)[1], split(line)[2])
                      ELSE d
         IN  IF Len(data_) >= 0
             THEN ReadLines(text, LineNext(text, LineEnd(text, p)), data_)
             ELSE data_

read_file(file) == IF file = None THEN <<>> ELSE ReadLines(file[1], 1, <<>>)

\* _write_file: the loop over data.items(), from item i.
RECURSIVE WriteLines(_, _)
WriteLines(d, i) ==
    IF i > Len(d) THEN <<>>
    ELSE d[i][1] \o <<EQUALS>> \o d[i][2] \o <<NEWLINE>> \o WriteLines(d, i + 1)

write_file(d) == <<WriteLines(d, 1)>>

TrueText == <<84, 114, 117, 101>>
FalseText == <<70, 97, 108, 115, 101>>

\* Python values: an int, a bool, a str, or a float given by the decimal
\* literal that is its repr.
PyInt(i) == [type |-> "int", int |-> i]
PyBool(b) == [type |-> "bool", bool |-> b]
PyStr(s) == [type |-> "str", text |-> s]
PyFloat(whole, frac) == [type |-> "float", whole |-> whole, frac |-> frac]

\* str(value)
py_str(value) ==
    IF value.type = "int"
    THEN IF value.int < 0 THEN <<MINUS>> \o str(-value.int) ELSE str(value.int)
    ELSE IF value.type = "bool" THEN (IF value.bool THEN TrueText ELSE FalseText)
    ELSE IF value.type = "float" THEN str(value.whole) \o <<DOT>> \o value.frac
    ELSE value.text

\* Each method: the file afterwards (or, for get, the outcome of the call).
FileSingleton_init(file) == IF file = None THEN write_file(<<>>) ELSE file
FileSingleton_set(file, key, value) == write_file(DictSet(read_file(file), key, py_str(value)))
FileSingleton_get(file, key) == DictGet(read_file(file), key)
FileSingleton_clear(file) == write_file(<<>>)

(***************************************************************************)
(* days_012__in_a_pickle_data.py: PickleDatabase.  database_file is the    *)
(* file database.pkl: None while it does not exist, else <<bytes>>.        *)
(***************************************************************************)
pickle_dump(d) == <<"pickle", d>>
pickle_load(bytes) == bytes[2]

read_database(file) == IF file = None THEN <<>> ELSE pickle_load(file[1])
write_database(d) == <<pickle_dump(d)>>

PickleDatabase_init(file) == IF file = None THEN write_database(<<>>) ELSE file
PickleDatabase_insert(file, key, value) == write_database(DictSet(read_database(file), key, value))
PickleDatabase_clear(file) == write_database(<<>>)

\* os.remove(path) under "if os.path.exists(path)"
remove_if_exists(file) == IF file # None THEN None ELSE file

(***************************************************************************)
(* The __main__ blocks of the three scripts that write files.  demo is the *)
(* script that runs, demo_pc the statement it is at, demo_i the index of   *)
(* the for loop it is in, demo_size the position in [100, 500, 1000], and  *)
(* demo_out what it has printed from the files.  Statements that touch     *)
(* neither a file nor the control flow (the banners, the in-memory         *)
(* comparison loop) are left out.  A run ends at "done", or at "raised"    *)
(* when a statement raises, which nothing catches.                         *)
(***************************************************************************)
SetCount == 100
RecordCount == 1000
ValueBytes == 100
Sizes == <<100, 500, 1000>>

KeyText == <<107, 101, 121, 95>>
ValueText == <<118, 97, 108, 117, 101, 95>>
NewKeyText == <<110, 101, 119, 95, 107, 101, 121>>
NewValueText == <<110, 101, 119, 95, 118, 97, 108, 117, 101>>
NumberText == <<110, 117, 109, 98, 101, 114>>
FloatText == <<102, 108, 111, 97, 116>>
BoolText == <<98, 111, 111, 108>>
X == 120

SingletonMain ==
    <<"s1", "s2", "s", "clear", "sets", "slowdown", "clear_again",
      "set_number", "set_float", "set_bool",
      "print_number", "print_float", "print_bool",
      "cleanup_clear", "cleanup_remove", "done">>

PickleMain ==
    <<"db", "clear", "size_clear", "populate", "new_key", "clear_again", "fill",
      "cleanup_clear", "cleanup_remove", "done">>

LinkedListMain ==
    <<"ll", "append_1", "append_2", "append_3", "listdir", "traverse", "delete_2",
      "traverse_again", "listdir_again", "done">>

\* The statement after pc in the block.
After(main, pc) == main[(CHOOSE i \in 1..Len(main) : main[i] = pc) + 1]

\* What time.time() - start can be: zero when the clock has not advanced
\* between the two readings, else positive.
Elapsed == {0, 1}

DemoInit ==
    /\ demo \in {"singleton", "pickle", "linked_list"}
    /\ demo_pc = IF demo = "singleton" THEN "s1" ELSE IF demo = "pickle" THEN "db" ELSE "ll"
    /\ demo_i = 0
    /\ demo_size = 1
    /\ demo_out = <<>>
    /\ singleton_file = None
    /\ database_file = None

\* s1 = FileSingleton(), s2 = FileSingleton(), s = FileSingleton()
new_FileSingleton ==
    /\ demo = "singleton" /\ demo_pc \in {"s1", "s2", "s"}
    /\ singleton_file' = FileSingleton_init(singleton_file)
    /\ demo_pc' = After(SingletonMain, demo_pc)
    /\ UNCHANGED <<demo, demo_i, demo_size, demo_out, database_file>>
    /\ Untouched({"demo"})

\* s.clear()
s_clear ==
    /\ demo = "singleton" /\ demo_pc \in {"clear", "clear_again", "cleanup_clear"}
    /\ singleton_file' = FileSingleton_clear(singleton_file)
    /\ demo_pc' = After(SingletonMain, demo_pc)
    /\ UNCHANGED <<demo, demo_i, demo_size, demo_out, database_file>>
    /\ Untouched({"demo"})

\* for iteration in range(100): s.set(f"key_{iteration}", iteration)
s_set_loop ==
    /\ demo = "singleton" /\ demo_pc = "sets"
    /\ IF demo_i < SetCount
       THEN /\ singleton_file' =
                FileSingleton_set(singleton_file, KeyText \o str(demo_i), PyInt(demo_i))
            /\ demo_i' = demo_i + 1
            /\ demo_pc' = demo_pc
       ELSE /\ demo_pc' = After(SingletonMain, demo_pc)
            /\ demo_i' = 0
            /\ UNCHANGED singleton_file
    /\ UNCHANGED <<demo, demo_size, demo_out, database_file>>
    /\ Untouched({"demo"})

\* print(f"   Slowdown:   {file_time / memory_time:.0f}x slower")
print_slowdown ==
    /\ demo = "singleton" /\ demo_pc = "slowdown"
    /\ \E memory_time \in Elapsed :
          IF memory_time = 0
          THEN /\ demo_pc' = "raised"
               /\ demo_out' = Append(demo_out, Raised("ZeroDivisionError"))
          ELSE /\ demo_pc' = After(SingletonMain, demo_pc)
               /\ UNCHANGED demo_out
    /\ UNCHANGED <<demo, demo_i, demo_size, singleton_file, database_file>>
    /\ Untouched({"demo"})

\* s.set("number", 42), s.set("float", 3.14), s.set("bool", True)
s_set ==
    /\ demo = "singleton" /\ demo_pc \in {"set_number", "set_float", "set_bool"}
    /\ singleton_file' =
          IF demo_pc = "set_number" THEN FileSingleton_set(singleton_file, NumberText, PyInt(42))
          ELSE IF demo_pc = "set_float"
          THEN FileSingleton_set(singleton_file, FloatText, PyFloat(3, <<49, 52>>))
          ELSE FileSingleton_set(singleton_file, BoolText, PyBool(TRUE))
    /\ demo_pc' = After(SingletonMain, demo_pc)
    /\ UNCHANGED <<demo, demo_i, demo_size, demo_out, database_file>>
    /\ Untouched({"demo"})

\* print(f"... got: {s.get('number')} ..."), and the same for float and bool
print_get ==
    /\ demo = "singleton" /\ demo_pc \in {"print_number", "print_float", "print_bool"}
    /\ demo_out' = Append(demo_out,
          FileSingleton_get(singleton_file,
              IF demo_pc = "print_number" THEN NumberText
              ELSE IF demo_pc = "print_float" THEN FloatText ELSE BoolText))
    /\ demo_pc' = After(SingletonMain, demo_pc)
    /\ UNCHANGED <<demo, demo_i, demo_size, singleton_file, database_file>>
    /\ Untouched({"demo"})

\* if os.path.exists(SINGLETON_FILE): os.remove(SINGLETON_FILE)
remove_singleton_file ==
    /\ demo = "singleton" /\ demo_pc = "cleanup_remove"
    /\ singleton_file' = remove_if_exists(singleton_file)
    /\ demo_pc' = After(SingletonMain, demo_pc)
    /\ UNCHANGED <<demo, demo_i, demo_size, demo_out, database_file>>
    /\ Untouched({"demo"})

\* db = PickleDatabase()
new_PickleDatabase ==
    /\ demo = "pickle" /\ demo_pc = "db"
    /\ database_file' = PickleDatabase_init(database_file)
    /\ demo_pc' = After(PickleMain, demo_pc)
    /\ UNCHANGED <<demo, demo_i, demo_size, demo_out, singleton_file>>
    /\ Untouched({"demo"})

\* db.clear(); the one at the head of "for size in [100, 500, 1000]" ends
\* the loop when the sizes are used up.
db_clear ==
    /\ demo = "pickle" /\ demo_pc \in {"clear", "size_clear", "clear_again", "cleanup_clear"}
    /\ IF demo_pc = "size_clear" /\ demo_size > Len(Sizes)
       THEN /\ demo_pc' = "clear_again"
            /\ UNCHANGED database_file
       ELSE /\ database_file' = PickleDatabase_clear(database_file)
            /\ demo_pc' = After(PickleMain, demo_pc)
    /\ UNCHANGED <<demo, demo_i, demo_size, demo_out, singleton_file>>
    /\ Untouched({"demo"})

\* for idx in range(size): db.insert(f"key_{idx}", f"value_{idx}")
db_populate ==
    /\ demo = "pickle" /\ demo_pc = "populate"
    /\ IF demo_i < Sizes[demo_size]
       THEN /\ database_file' = PickleDatabase_insert(database_file, KeyText \o str(demo_i),
                                                      ValueText \o str(demo_i))
            /\ demo_i' = demo_i + 1
            /\ demo_pc' = demo_pc
       ELSE /\ demo_pc' = After(PickleMain, demo_pc)
            /\ demo_i' = 0
            /\ UNCHANGED database_file
    /\ UNCHANGED <<demo, demo_size, demo_out, singleton_file>>
    /\ Untouched({"demo"})

\* db.insert("new_key", "new_value"), then the next size
db_insert_new_key ==
    /\ demo = "pickle" /\ demo_pc = "new_key"
    /\ database_file' = PickleDatabase_insert(database_file, NewKeyText, NewValueText)
    /\ demo_size' = demo_size + 1
    /\ demo_pc' = "size_clear"
    /\ UNCHANGED <<demo, demo_i, demo_out, singleton_file>>
    /\ Untouched({"demo"})

\* for idx in range(1000): db.insert(f"key_{idx}", "x" * 100)
db_fill ==
    /\ demo = "pickle" /\ demo_pc = "fill"
    /\ IF demo_i < RecordCount
       THEN /\ database_file' = PickleDatabase_insert(database_file, KeyText \o str(demo_i),
                                                      Repeat(X, ValueBytes))
            /\ demo_i' = demo_i + 1
            /\ demo_pc' = demo_pc
       ELSE /\ demo_pc' = After(PickleMain, demo_pc)
            /\ demo_i' = 0
            /\ UNCHANGED database_file
    /\ UNCHANGED <<demo, demo_size, demo_out, singleton_file>>
    /\ Untouched({"demo"})

\* if os.path.exists(DATABASE_FILE): os.remove(DATABASE_FILE)
remove_database_file ==
    /\ demo = "pickle" /\ demo_pc = "cleanup_remove"
    /\ database_file' = remove_if_exists(database_file)
    /\ demo_pc' = After(PickleMain, demo_pc)
    /\ UNCHANGED <<demo, demo_i, demo_size, demo_out, singleton_file>>
    /\ Untouched({"demo"})

\* The statement after pc of main() in days_023__linked_disks.py, given the
\* outcome of the call at pc.
AfterCall(pc, out) ==
    IF out = Hangs THEN pc
    ELSE IF Len(out) = 2 THEN "raised"
    ELSE After(LinkedListMain, pc)

\* ll = FileNodeLinkedList()
new_FileNodeLinkedList ==
    /\ demo = "linked_list" /\ demo_pc = "ll"
    /\ node_dir' = makedirs(node_dir)
    /\ ll_head' = None
    /\ demo_pc' = After(LinkedListMain, demo_pc)
    /\ UNCHANGED <<ll_out, ll_appended>>
    /\ UNCHANGED <<demo, demo_i, demo_size, demo_out, singleton_file, database_file>>
    /\ Untouched({"demo", "list"})

\* ll.append(1), ll.append(2), ll.append(3)
ll_append ==
    /\ demo = "linked_list" /\ demo_pc \in {"append_1", "append_2", "append_3"}
    /\ LET value == IF demo_pc = "append_1" THEN 1 ELSE IF demo_pc = "append_2" THEN 2 ELSE 3
           call == list_append(Files, ll_head, value)
       IN  /\ ll_head' = call.head
           /\ node_dir' = <<call.files>>
           /\ ll_out' = call.out
           /\ ll_appended' = Append(ll_appended, value)
           /\ demo_pc' = AfterCall(demo_pc, call.out)
    /\ UNCHANGED <<demo, demo_i, demo_size, demo_out, singleton_file, database_file>>
    /\ Untouched({"demo", "list"})

\* for filename in sorted(os.listdir(NODE_DIR)): print(f"  {filename}")
print_listdir ==
    /\ demo = "linked_list" /\ demo_pc \in {"listdir", "listdir_again"}
    /\ demo_out' = Append(demo_out, DOMAIN Files)
    /\ demo_pc' = After(LinkedListMain, demo_pc)
    /\ UNCHANGED <<demo, demo_i, demo_size, singleton_file, database_file>>
    /\ UNCHANGED listVars
    /\ Untouched({"demo", "list"})

\* print(ll.traverse())
print_traverse ==
    /\ demo = "linked_list" /\ demo_pc \in {"traverse", "traverse_again"}
    /\ ll_out' = traverse(Files, ll_head)
    /\ demo_out' = Append(demo_out, traverse(Files, ll_head))
    /\ demo_pc' = AfterCall(demo_pc, traverse(Files, ll_head))
    /\ UNCHANGED <<node_dir, ll_head, ll_appended>>
    /\ UNCHANGED <<demo, demo_i, demo_size, singleton_file, database_file>>
    /\ Untouched({"demo", "list"})

\* ll.delete(2)
ll_delete ==
    /\ demo = "linked_list" /\ demo_pc = "delete_2"
    /\ LET call == list_delete(Files, ll_head, 2)
       IN  /\ ll_head' = call.head
           /\ node_dir' = <<call.files>>
           /\ ll_out' = call.out
           /\ demo_pc' = AfterCall(demo_pc, call.out)
    /\ UNCHANGED ll_appended
    /\ UNCHANGED <<demo, demo_i, demo_size, demo_out, singleton_file, database_file>>
    /\ Untouched({"demo", "list"})

InitDemos == DemoInit /\ ListParked /\ Parked({"demo", "list"})

NextDemos ==
    \/ new_FileSingleton \/ s_clear \/ s_set_loop \/ print_slowdown \/ s_set
    \/ print_get \/ remove_singleton_file
    \/ new_PickleDatabase \/ db_clear \/ db_populate \/ db_insert_new_key \/ db_fill
    \/ remove_database_file
    \/ new_FileNodeLinkedList \/ ll_append \/ print_listdir \/ print_traverse \/ ll_delete

SpecDemos == InitDemos /\ [][NextDemos]_vars

\* The run has ended: the last statement is done, or a statement raised.
DemoEnded == demo_pc \in {"done", "raised"}

\* C4: when the __main__ block of the file-singleton demo, of the
\* pickle-database demo or of the linked-list demo ends, singleton.txt,
\* database.pkl and the directory linked_list_nodes no longer exist.
C4_DemoFilesRemoved ==
    DemoEnded => singleton_file = None /\ database_file = None /\ node_dir = None

\* C11: delete(value), when value is in the list, removes exactly the first
\* node holding it: the call returns, one node file is gone and none is
\* added, and traverse() then returns the previous sequence without its
\* first occurrence of value; when value is not in the list it raises
\* ValueError and changes neither head nor any node file.
C11_DeleteRemovesFirst ==
    [][\A value \in 1..MaxNodeValue :
          delete(value) =>
              IF \E i \in 1..Len(ll_appended) : ll_appended[i] = value
              THEN /\ ll_out' = None
                   /\ DOMAIN node_dir'[1] \subseteq DOMAIN Files
                   /\ Cardinality(DOMAIN node_dir'[1]) = Cardinality(DOMAIN Files) - 1
                   /\ traverse(node_dir'[1], ll_head') = Returned(ll_appended')
              ELSE /\ ll_out' = Raised("ValueError")
                   /\ UNCHANGED <<ll_head, node_dir>>]_vars

\* C12: peek() on a non-empty QueueUsingTwoFightingStacks returns the oldest
\* element still in the queue, which is what the reference queue returns
\* for the same calls, and leaves the contents, their order and size()
\* unchanged.
C12_PeekReturnsFront ==
    [][(peek /\ stack_a # <<>>) =>
          /\ q_out' = ref_out'
          /\ stack_a' = stack_a /\ stack_b' = stack_b]_vars

(***************************************************************************)
(* days_020__de_Q_stack.py: StackUsingQueueWrongEnd.  wq_queue is the      *)
(* deque self._queue, left end first.  wq_call is the method called last   *)
(* and wq_out its outcome.  History variables: wq_ref is a stack kept top first, and         *)
(* wq_pushes and wq_pops count the pushes and the pops that returned.      *)
(***************************************************************************)
\* self._queue.append(value)
wrong_end_push(queue, value) == Append(queue, value)

\* self._queue.popleft(), the end a queue gives up.
wrong_end_pop_left(queue) == [value |-> Head(queue), queue |-> Tail(queue)]

\* self._queue.pop() on a non-empty deque: the value and the deque afterwards.
wrong_end_pop(queue) == [value |-> queue[Len(queue)], queue |-> SubSeq(queue, 1, Len(queue) - 1)]

\* self._queue[-1]
wrong_end_peek(queue) == queue[Len(queue)]

\* not self._queue
wrong_end_is_empty(queue) == queue = <<>>

WrongEndInit ==
    /\ wq_queue = <<>> /\ wq_call = "" /\ wq_out = None
    /\ wq_ref = <<>> /\ wq_pushes = 0 /\ wq_pops = 0

stack_push(value) ==
    /\ wq_pushes < MaxPushes
    /\ wq_call' = "push"
    /\ wq_queue' = wrong_end_push(wq_queue, value)
    /\ wq_out' = None
    /\ wq_ref' = <<value>> \o wq_ref
    /\ wq_pushes' = wq_pushes + 1
    /\ UNCHANGED wq_pops
    /\ Untouched({"wrong_end"})

stack_pop ==
    /\ wq_call' = "pop"
    /\ IF wrong_end_is_empty(wq_queue)
       THEN /\ wq_out' = Raised("IndexError")
            /\ UNCHANGED <<wq_queue, wq_pops>>
       ELSE /\ wq_out' = Returned(wrong_end_pop(wq_queue).value)
            /\ wq_queue' = wrong_end_pop(wq_queue).queue
            /\ wq_pops' = wq_pops + 1
    /\ wq_ref' = IF wq_ref = <<>> THEN wq_ref ELSE Tail(wq_ref)
    /\ UNCHANGED wq_pushes
    /\ Untouched({"wrong_end"})

stack_peek ==
    /\ wq_call' = "peek"
    /\ wq_out' = IF wrong_end_is_empty(wq_queue) THEN Raised("IndexError")
                 ELSE Returned(wrong_end_peek(wq_queue))
    /\ UNCHANGED <<wq_queue, wq_ref, wq_pushes, wq_pops>>
    /\ Untouched({"wrong_end"})

stack_is_empty ==
    /\ wq_call' = "is_empty"
    /\ wq_out' = Returned(wrong_end_is_empty(wq_queue))
    /\ UNCHANGED <<wq_queue, wq_ref, wq_pushes, wq_pops>>
    /\ Untouched({"wrong_end"})

InitWrongEnd == WrongEndInit /\ Parked({"wrong_end"})

NextWrongEnd ==
    \/ \E value \in 1..MaxPushed : stack_push(value)
    \/ stack_pop
    \/ stack_peek
    \/ stack_is_empty

SpecWrongEnd == InitWrongEnd /\ [][NextWrongEnd]_vars

\* C13: StackUsingQueueWrongEnd is a LIFO stack: pop returns and removes the
\* most recently pushed element not yet popped, peek returns it and removes
\* nothing, is_empty is true exactly when the pushes equal the pops that
\* returned, and pop or peek on an empty stack raises IndexError and leaves
\* the stack empty.
C13_WrongEndIsLifo ==
    [][/\ wq_call' = "pop" =>
            IF wq_ref = <<>>
            THEN wq_out' = Raised("IndexError") /\ wrong_end_is_empty(wq_queue')
            ELSE wq_out' = Returned(Head(wq_ref)) /\ Len(wq_queue') = Len(wq_queue) - 1
       /\ wq_call' = "peek" =>
            IF wq_ref = <<>>
            THEN wq_out' = Raised("IndexError") /\ wrong_end_is_empty(wq_queue')
            ELSE wq_out' = Returned(Head(wq_ref)) /\ wq_queue' = wq_queue
       /\ wq_call' = "is_empty" => wq_out' = Returned(wq_pushes = wq_pops)]_vars

\* After three pushes a second pop has returned 2 and has left 1 on the
\* stack, as in main().
C13_Witness ==
    /\ wq_call = "pop" /\ wq_pushes = 3 /\ wq_pops = 2
    /\ wq_out = Returned(2) /\ wq_queue = <<1>> /\ wq_ref = <<1>>

(***************************************************************************)
(* days_011__singleton_aint_single.py: set and get called on FileSingleton *)
(* objects, which share singleton.txt (singleton_file) and hold no state   *)
(* of their own.  fs_call is the last call and fs_out its outcome.         *)
(* fs_data is a history variable: the dict of the keys set so far, each    *)
(* with the str() of the value it was set to last.                         *)
(***************************************************************************)
\* The characters of the keys and values tried: a letter and a space.
SPACE == 32
LETTER == 97
Texts(n) == UNION {[1..k -> {LETTER, SPACE}] : k \in 0..n}

\* The values tried: strings, an int and a bool.
PyValues == {PyStr(t) : t \in Texts(MaxValueLen)} \cup {PyInt(10), PyBool(TRUE)}

\* A FileSingleton object has been made in a directory without singleton.txt.
SingletonInit ==
    /\ singleton_file = FileSingleton_init(None)
    /\ fs_call = <<>> /\ fs_out = None /\ fs_data = <<>>
    /\ demo = "" /\ demo_pc = "parked" /\ demo_i = 0 /\ demo_size = 0
    /\ demo_out = <<>> /\ database_file = None

set(key, value) ==
    /\ fs_call' = <<"set", key>>
    /\ singleton_file' = FileSingleton_set(singleton_file, key, value)
    /\ fs_out' = None
    /\ fs_data' = DictSet(fs_data, key, py_str(value))
    /\ UNCHANGED <<demo, demo_pc, demo_i, demo_size, demo_out, database_file>>
    /\ Untouched({"demo", "singleton"})

singleton_get(key) ==
    /\ fs_call' = <<"get", key>>
    /\ fs_out' = FileSingleton_get(singleton_file, key)
    /\ UNCHANGED <<singleton_file, fs_data>>
    /\ UNCHANGED <<demo, demo_pc, demo_i, demo_size, demo_out, database_file>>
    /\ Untouched({"demo", "singleton"})

InitSingleton == SingletonInit /\ Parked({"demo", "singleton"})

NextSingleton ==
    \/ \E key \in Texts(MaxKeyLen), value \in PyValues : set(key, value)
    \/ \E key \in Texts(MaxKeyLen) : singleton_get(key)

SpecSingleton == InitSingleton /\ [][NextSingleton]_vars

\* C14: for keys without "=" and newline and values whose str() has no
\* newline, get(key) returns exactly the str() of the value key was set to
\* last, whatever was set under other keys since (and None for a key never
\* set).
C14_RoundTrip ==
    fs_call # <<>> /\ fs_call[1] = "get" => fs_out = DictGet(fs_data, fs_call[2])

(***************************************************************************)
(* days_013__permanent_rest_API.py: the handler of POST /api.  items is    *)
(* the module-level dict, a sequence of (key, value) pairs in insertion    *)
(* order.  api_body is <<body>>, the value request.get_json() gave for the *)
(* last request, and api_out the outcome of api_router for it: the status  *)
(* returned or the exception raised.  The values of JSON are Python        *)
(* values: None, bools, ints, strs, lists and dicts (a dict is the         *)
(* sequence of its (key, value) pairs, its keys being TLA+ strings).       *)
(***************************************************************************)
PyNone == [type |-> "NoneType"]
PyList(elements) == [type |-> "list", elements |-> elements]
PyDict(pairs) == [type |-> "dict", pairs |-> pairs]

\* bool(value)
Truthy(value) ==
    IF value.type = "NoneType" THEN FALSE
    ELSE IF value.type = "bool" THEN value.bool
    ELSE IF value.type = "int" THEN value.int # 0
    ELSE IF value.type = "str" THEN value.text # <<>>
    ELSE IF value.type = "list" THEN value.elements # <<>>
    ELSE value.pairs # <<>>

\* Whether hash(value) returns: lists and dicts are unhashable.
Hashable(value) == value.type \notin {"list", "dict"}

\* a == b for hashable values: True is 1 and False is 0.
PyEq(a, b) ==
    IF a.type \in {"int", "bool"} /\ b.type \in {"int", "bool"}
    THEN (IF a.type = "bool" THEN (IF a.bool THEN 1 ELSE 0) ELSE a.int)
            = (IF b.type = "bool" THEN (IF b.bool THEN 1 ELSE 0) ELSE b.int)
    ELSE a.type = b.type /\ a = b

\* key in d, d[key] = value and del d[key] on a dict with Python values as
\* keys; a key that is there keeps the object it was inserted with.
PyIn(d, key) == \E i \in 1..Len(d) : PyEq(d[i][1], key)
PySet(d, key, value) ==
    IF PyIn(d, key)
    THEN [i \in 1..Len(d) |-> IF PyEq(d[i][1], key) THEN <<d[i][1], value>> ELSE d[i]]
    ELSE Append(d, <<key, value>>)
PyDel(d, key) == SelectSeq(d, LAMBDA item : ~PyEq(item[1], key))

\* data.get(field) on a JSON object
body_get(body, field) ==
    IF \E i \in 1..Len(body.pairs) : body.pairs[i][1] = field
    THEN body.pairs[CHOOSE i \in 1..Len(body.pairs) : body.pairs[i][1] = field][2]
    ELSE PyNone

\* Each handler: items afterwards and the outcome.
handle_create(d, body) ==
    LET item_id == body_get(body, "id")
        name == body_get(body, "name")
    IN  IF ~Truthy(item_id) \/ ~Truthy(name) THEN [items |-> d, out |-> Returned(400)]
        ELSE IF ~Hashable(item_id) THEN [items |-> d, out |-> Raised("TypeError")]
        ELSE [items |-> PySet(d, item_id, name), out |-> Returned(200)]

handle_update(d, body) ==
    LET item_id == body_get(body, "id")
        name == body_get(body, "name")
    IN  IF ~Hashable(item_id) THEN [items |-> d, out |-> Raised("TypeError")]
        ELSE IF ~PyIn(d, item_id) THEN [items |-> d, out |-> Returned(404)]
        ELSE [items |-> PySet(d, item_id, name), out |-> Returned(200)]

handle_delete(d, body) ==
    LET item_id == body_get(body, "id")
    IN  IF ~Hashable(item_id) THEN [items |-> d, out |-> Raised("TypeError")]
        ELSE IF ~PyIn(d, item_id) THEN [items |-> d, out |-> Returned(404)]
        ELSE [items |-> PyDel(d, item_id), out |-> Returned(200)]

handle_list(d, body) == [items |-> d, out |-> Returned(200)]

CreateText == <<99, 114, 101, 97, 116, 101>>
UpdateText == <<117, 112, 100, 97, 116, 101>>
DeleteText == <<100, 101, 108, 101, 116, 101>>
ListText == <<108, 105, 115, 116>>

router(d, body) ==
    IF ~Truthy(body) THEN [items |-> d, out |-> Returned(400)]
    ELSE IF body.type # "dict" THEN [items |-> d, out |-> Raised("AttributeError")]
    ELSE LET action == body_get(body, "action")
         IN  IF PyEq(action, PyStr(CreateText)) THEN handle_create(d, body)
             ELSE IF PyEq(action, PyStr(UpdateText)) THEN handle_update(d, body)
             ELSE IF PyEq(action, PyStr(DeleteText)) THEN handle_delete(d, body)
             ELSE IF PyEq(action, PyStr(ListText)) THEN handle_list(d, body)
             ELSE [items |-> d, out |-> Returned(400)]

\* The requests tried.  A field that is None is left out of the object, so
\* that the object with no field is the empty body {}.
Actions ==
    {PyNone, PyStr(CreateText), PyStr(UpdateText), PyStr(DeleteText), PyStr(ListText),
     PyStr(<<120>>)}
Ids ==
    {PyNone, PyStr(<<>>), PyStr(<<49>>), PyInt(0), PyInt(1), PyBool(TRUE),
     PyList(<<PyInt(1)>>)}
Names == {PyNone, PyStr(<<>>), PyStr(<<110>>), PyList(<<>>)}

JsonObject(action, id, name) ==
    PyDict(SelectSeq(<< <<"action", action>>, <<"id", id>>, <<"name", name>> >>,
                     LAMBDA field : field[2].type # "NoneType"))

Bodies ==
    {JsonObject(action, id, name) : action \in Actions, id \in Ids, name \in Names}
        \cup {PyNone, PyList(<<PyInt(1)>>)}

ApiInit == items = <<>> /\ api_body = <<>> /\ api_out = None

\* One request: body = request.get_json() and the dispatch on it.
api_router ==
    \E body \in Bodies :
        /\ api_body' = <<body>>
        /\ items' = router(items, body).items
        /\ api_out' = router(items, body).out
        /\ Untouched({"api"})

InitApi == ApiInit /\ Parked({"api"})
NextApi == api_router
SpecApi == InitApi /\ [][NextApi]_vars

\* The status the claim gives for a request on items d: 400 for an empty
\* body, for a create without an id or without a name and for an unknown
\* action, 404 for an update or delete of an id not in items, else 200.
ClaimedStatus(d, body) ==
    IF ~Truthy(body) THEN 400
    ELSE LET action == body_get(body, "action")
             id == body_get(body, "id")
             name == body_get(body, "name")
         IN  IF action = PyStr(CreateText)
             THEN (IF ~Truthy(id) \/ ~Truthy(name) THEN 400 ELSE 200)
             ELSE IF action \in {PyStr(UpdateText), PyStr(DeleteText)}
             THEN (IF Hashable(id) /\ PyIn(d, id) THEN 200 ELSE 404)
             ELSE IF action = PyStr(ListText) THEN 200
             ELSE 400

\* C15: every request answered with an error status leaves items as it
\* was, and every request whose body is a JSON object (or empty) gets the
\* status the claim gives: 400, 404 or 200.
C15_ErrorsLeaveItems ==
    [][/\ api_out' # Returned(200) => items' = items
       /\ (~Truthy(api_body'[1]) \/ api_body'[1].type = "dict")
              => api_out' = Returned(ClaimedStatus(items, api_body'[1]))]_vars

(***************************************************************************)
(* days_002__war_Calculator.py: subtraction, string_calculator(x, y, "-"). *)
(***************************************************************************)
InitSub == CalcInit("-") /\ Parked({"calc"})
NextSub == Calculate
SpecSub == InitSub /\ [][NextSub]_vars

\* The canonical decimal string of a number: a numeral with no trailing
\* fractional zero, no trailing point, and no leading zero except the single
\* "0" before the point of a number below 1.
Canonical(s) ==
    /\ IsNumeral(s)
    /\ Normalized(s)
    /\ IntPart(s) # <<>>
    /\ IntPart(s) = <<ZERO>> \/ IntPart(s)[1] # ZERO

\* C16: for a >= b, string_calculator(a, b, "-") returns the canonical
\* decimal string of the exact difference a - b: "20" - "7" gives "13", equal
\* operands give "0", and a difference below 1 has a "0" before the point.
C16_SubtractExact ==
    (calc_op = "-" /\ calc_pc = "done" /\ NumberOf(calc_x, Scale) >= NumberOf(calc_y, Scale)) =>
        /\ Canonical(calc_result)
        /\ Len(FracPart(calc_result)) <= Scale
        /\ NumberOf(calc_result, Scale) = NumberOf(calc_x, Scale) - NumberOf(calc_y, Scale)
        /\ (calc_x = <<50, 48>> /\ calc_y = <<55>> => calc_result = <<49, 51>>)

(***************************************************************************)
(* days_002__war_Calculator.py: multiplication, string_calculator(x, y,    *)
(* "*"), on operands with up to MaxMulFracLen fractional digits.           *)
(***************************************************************************)
MaxMulFracLen == 2

MulNumerals ==
    {ip \o fp : ip \in Digits(1),
                fp \in {<<>>} \cup {<<DOT>> \o f : f \in Digits(MaxMulFracLen)}}

InitMul ==
    /\ calc_op = "*"
    /\ \E in \in {<<x, y, "*">> : x \in MulNumerals, y \in MulNumerals}
                  \cup {e \in Examples : e[3] = "*"} :
          calc_x = in[1] /\ calc_y = in[2]
    /\ calc_pc = "call"
    /\ calc_result = <<>>
    /\ div_a = <<>> /\ div_b = <<>> /\ div_i = 0 /\ decs = 0
    /\ remainder = <<>> /\ count = 0 /\ quotient = <<>>
    /\ Parked({"calc"})
NextMul == Calculate
SpecMul == InitMul /\ [][NextMul]_vars

\* C17: string_calculator(a, b, "*") returns a numeral that denotes exactly
\* a * b, whatever the number of fractional digits of a and b: the point of
\* the result stands where the fractional digits of both operands put it
\* ("3.2" * "1.5" gives "4.8").
C17_MultiplyExact ==
    (calc_op = "*" /\ calc_pc = "done") =>
        /\ IsNumeral(calc_result)
        /\ Len(FracPart(calc_result)) <= 2 * MaxMulFracLen
        /\ NumberOf(calc_result, 2 * MaxMulFracLen)
             = NumberOf(calc_x, MaxMulFracLen) * NumberOf(calc_y, MaxMulFracLen)
        /\ (calc_x = <<51, 46, 50>> /\ calc_y = <<49, 46, 53>> => calc_result = <<52, 46, 56>>)

(***************************************************************************)
(* days_017__Reversed_bit_roles.py: reverse_string_via_binary_shifts.      *)
(***************************************************************************)
MaxCode == 256
MaxTextLen == 3

RECURSIVE Pow2(_)
Pow2(n) == IF n <= 0 THEN 1 ELSE 2 * Pow2(n - 1)

\* value >> i and value << i
ShiftRight(value, i) == value \div Pow2(i)
ShiftLeft(value, i) == value * Pow2(i)

\* value & 1
LowBit(value) == value % 2

\* m | n on non-negative integers
RECURSIVE BitOr(_, _)
BitOr(m, n) ==
    IF m = 0 THEN n
    ELSE IF n = 0 THEN m
    ELSE 2 * BitOr(m \div 2, n \div 2) + Max(m % 2, n % 2)

\* "for i in range(8): bits.append(str((value >> i) & 1))": the list of the
\* digits "0" and "1", lowest bit first.
extract_bits(value) == [k \in 1..8 |-> ZERO + LowBit(ShiftRight(value, k - 1))]

\* The shift given to the bit at index i of the reversed list, and the shift
\* that would leave the bits reversed.
shift_plain(i) == i
shift(i) == 7 - i

\* "for i, bit in enumerate(bits): reconstructed |= (int(bit) << (7 - i))"
RECURSIVE reconstruct(_, _, _)
reconstruct(bits, i, reconstructed) ==
    IF i >= Len(bits) THEN reconstructed
    ELSE reconstruct(bits, i + 1, BitOr(reconstructed, ShiftLeft(bits[i + 1] - ZERO, shift(i))))

\* One round of the outer loop: the code point appended to result.
rebuilt(value) == reconstruct(Reverse(extract_bits(value)), 0, 0)

reverse_string_via_binary_shifts(t) == Reverse([k \in 1..Len(t) |-> rebuilt(t[k])])

reverse_string_correct(t) == [k \in 1..Len(t) |-> t[Len(t) + 1 - k]]

\* The texts tried: every single character up to MaxCode, and the texts of
\* up to MaxTextLen characters over a few code points.
CodeSamples == {0, 65, 170, 255, MaxCode}

RECURSIVE TextsOver(_, _)
TextsOver(codes, n) ==
    IF n = 0 THEN {<<>>}
    ELSE TextsOver(codes, n - 1)
         \cup {Append(t, c) : t \in {u \in TextsOver(codes, n - 1) : Len(u) = n - 1}, c \in codes}

ReverseInit ==
    /\ rev_text \in {<<c>> : c \in 0..MaxCode} \cup TextsOver(CodeSamples, MaxTextLen)
    /\ rev_pc = "call"
    /\ rev_out = None

reverse_call ==
    /\ rev_pc = "call"
    /\ rev_out' = Returned(reverse_string_via_binary_shifts(rev_text))
    /\ rev_pc' = "done"
    /\ UNCHANGED rev_text
    /\ Untouched({"reverse"})

InitReverse == ReverseInit /\ Parked({"reverse"})
NextReverse == reverse_call
SpecReverse == InitReverse /\ [][NextReverse]_vars

MaxInserts == 3
MaxTreeValue == 10
MaxIndex == 2

COMMA == 44

\* str(value) and int(text) of a Python int
int_str(value) == IF value < 0 THEN <<MINUS>> \o str(-value) ELSE str(value)
int_parse(t) == IF t[1] = MINUS THEN -DigitsValue(Tail(t)) ELSE DigitsValue(t)

\* t.split(","): the pieces between the commas
RECURSIVE csv_split(_)
csv_split(t) ==
    IF Contains(t, COMMA)
    THEN <<SubSeq(t, 1, IndexOf(t, COMMA))>> \o csv_split(SubSeq(t, IndexOf(t, COMMA) + 2, Len(t)))
    ELSE <<t>>

\* ",".join(values)
RECURSIVE csv_join(_)
csv_join(values) ==
    IF values = <<>> THEN <<>>
    ELSE IF Len(values) = 1 THEN values[1]
    ELSE values[1] \o <<COMMA>> \o csv_join(Tail(values))

as_list(t) == IF t = <<>> THEN <<>> ELSE csv_split(t)
save(values) == csv_join(values)

\* BinaryTreeAsString.insert: the text afterwards.
tree_insert(t, value) == save(Append(as_list(t), int_str(value)))

\* values[i] of a Python list: a negative i counts from the end.
list_item(values, i) ==
    IF i >= 0 /\ i < Len(values) THEN Returned(values[i + 1])
    ELSE IF i < 0 /\ -i <= Len(values) THEN Returned(values[Len(values) + i + 1])
    ELSE Raised("IndexError")

\* The common body of get_left and get_right: child is 2 * index + 1 or
\* 2 * index + 2.
tree_child(t, child) ==
    IF child >= Len(as_list(t)) THEN None
    ELSE IF list_item(as_list(t), child) = Raised("IndexError") THEN Raised("IndexError")
    ELSE Returned(int_parse(list_item(as_list(t), child)[1]))

tree_get_left(t, index) == tree_child(t, 2 * index + 1)
tree_get_right(t, index) == tree_child(t, 2 * index + 2)

TreeValues == {-MaxTreeValue, 0, 7, MaxTreeValue}

TreeInit ==
    tree = <<>> /\ tree_call = <<>> /\ tree_out = None /\ tree_inserted = <<>>

insert(value) ==
    /\ Len(tree_inserted) < MaxInserts
    /\ tree' = tree_insert(tree, value)
    /\ tree_inserted' = Append(tree_inserted, value)
    /\ tree_call' = <<"insert", value>>
    /\ tree_out' = None
    /\ Untouched({"tree"})

get_left(index) ==
    /\ tree_call' = <<"get_left", index>>
    /\ tree_out' = tree_get_left(tree, index)
    /\ UNCHANGED <<tree, tree_inserted>>
    /\ Untouched({"tree"})

get_right(index) ==
    /\ tree_call' = <<"get_right", index>>
    /\ tree_out' = tree_get_right(tree, index)
    /\ UNCHANGED <<tree, tree_inserted>>
    /\ Untouched({"tree"})

InitTree == TreeInit /\ Parked({"tree"})
NextTree ==
    \/ \E value \in TreeValues : insert(value)
    \/ \E index \in (-MaxIndex)..MaxIndex : get_left(index)
    \/ \E index \in (-MaxIndex)..MaxIndex : get_right(index)
SpecTree == InitTree /\ [][NextTree]_vars

\* The value at level-order position p of the inserted values v0..v(n-1),
\* None when no value was inserted at p.
NodeAt(inserted, p) ==
    IF p >= 0 /\ p < Len(inserted) THEN Returned(inserted[p + 1]) ELSE None

\* C19: for every integer index, get_left(index) returns the value inserted
\* at level-order position 2*index+1, or None when there is no such node,
\* get_right(index) does the same for position 2*index+2, and neither call
\* changes the stored CSV string.
C19_ChildrenByPosition ==
    [][/\ (tree_call' # <<>> /\ tree_call'[1] = "get_left") =>
            /\ tree_out' = NodeAt(tree_inserted, 2 * tree_call'[2] + 1)
            /\ tree' = tree
       /\ (tree_call' # <<>> /\ tree_call'[1] = "get_right") =>
            /\ tree_out' = NodeAt(tree_inserted, 2 * tree_call'[2] + 2)
            /\ tree' = tree]_vars

(***************************************************************************)
(* days_006__Cursive_for_loop.py: the nested loops of the __main__ block,  *)
(* cursive_for(0, 3, 1, outer_action) with outer_action calling            *)
(* cursive_for(0, 2, 1, <lambda>).  cf_stack holds the frames of           *)
(* cursive_for and of outer_action; cf_calls lists the invocations of the  *)
(* two actions as <<"outer", index>> and <<"inner", index>>.               *)
(***************************************************************************)
NestedLimit == 20
OuterEnd == 3
InnerEnd == 2

NestedFrame(fn, start, end, step, action, pc) ==
    [fn |-> fn, start |-> start, end |-> end, step |-> step, action |-> action, pc |-> pc]

\* cursive_for(0, end, 1, outer_action), called while current_index is 0.
NestedInit ==
    /\ current_index = 0
    /\ cf_args \in {0} \X (1..OuterEnd) \X {1}
    /\ cf_stack = <<NestedFrame("cursive_for", cf_args[1], cf_args[2], cf_args[3], "outer", "enter")>>
    /\ cf_calls = <<>>
    /\ cf_status = "running"

\* "current_index = 0  # reset for reuse", and a loop that would not reset.
reset_kept(index) == index
reset(index) == 0

RecursionError ==
    /\ cf_stack' = <<>>
    /\ cf_status' = "RecursionError"
    /\ UNCHANGED cf_calls

\* cursive_for from its entry to its return, to the call of outer_action, or
\* (the lambda has printed and returned) to its recursive call.
nested_enter ==
    /\ cf_stack # <<>>
    /\ LET f == cf_stack[Len(cf_stack)]
           index == initialised(current_index, f.start)
       IN  /\ f.fn = "cursive_for" /\ f.pc = "enter"
           /\ IF index >= f.end
              THEN /\ current_index' = reset(index)
                   /\ cf_stack' = Pop(cf_stack)
                   /\ cf_status' = IF Len(cf_stack) = 1 THEN "returned" ELSE cf_status
                   /\ UNCHANGED cf_calls
              ELSE IF Len(cf_stack) >= NestedLimit
              THEN current_index' = index /\ RecursionError
              ELSE IF f.action = "inner"
              THEN /\ cf_calls' = Append(cf_calls, <<"inner", index>>)
                   /\ current_index' = index + f.step
                   /\ cf_stack' = Append([cf_stack EXCEPT ![Len(cf_stack)].pc = "called"],
                                         NestedFrame("cursive_for", f.start, f.end, f.step, f.action, "enter"))
                   /\ UNCHANGED cf_status
              ELSE /\ cf_calls' = Append(cf_calls, <<"outer", index>>)
                   /\ current_index' = index
                   /\ cf_stack' = Append([cf_stack EXCEPT ![Len(cf_stack)].pc = "in_action"],
                                         NestedFrame("outer_action", 0, 0, 0, "", "enter"))
                   /\ UNCHANGED cf_status
    /\ UNCHANGED cf_args
    /\ Untouched({"cursive"})

\* outer_action prints and calls cursive_for(0, 2, 1, <lambda>).
outer_action ==
    /\ cf_stack # <<>>
    /\ cf_stack[Len(cf_stack)].fn = "outer_action"
    /\ cf_stack[Len(cf_stack)].pc = "enter"
    /\ IF Len(cf_stack) >= NestedLimit
       THEN RecursionError
       ELSE /\ cf_stack' = Append([cf_stack EXCEPT ![Len(cf_stack)].pc = "called"],
                                  NestedFrame("cursive_for", 0, InnerEnd, 1, "inner", "enter"))
            /\ UNCHANGED <<cf_calls, cf_status>>
    /\ UNCHANGED <<current_index, cf_args>>
    /\ Untouched({"cursive"})

\* outer_action has returned: "current_index += step" on the global as the
\* inner loop left it, then the recursive call.
nested_resume ==
    /\ cf_stack # <<>>
    /\ cf_stack[Len(cf_stack)].pc = "in_action"
    /\ current_index' = current_index + cf_stack[Len(cf_stack)].step
    /\ IF Len(cf_stack) >= NestedLimit
       THEN RecursionError
       ELSE /\ cf_stack' = Append([cf_stack EXCEPT ![Len(cf_stack)].pc = "called"],
                                  [cf_stack[Len(cf_stack)] EXCEPT !.pc = "enter"])
            /\ UNCHANGED <<cf_calls, cf_status>>
    /\ UNCHANGED cf_args
    /\ Untouched({"cursive"})

\* The call a frame was waiting for has returned: so does the frame.
nested_return ==
    /\ cf_stack # <<>>
    /\ cf_stack[Len(cf_stack)].pc = "called"
    /\ cf_stack' = Pop(cf_stack)
    /\ cf_status' = IF Len(cf_stack) = 1 THEN "returned" ELSE cf_status
    /\ UNCHANGED <<current_index, cf_args, cf_calls>>
    /\ Untouched({"cursive"})

InitNested == NestedInit /\ Parked({"cursive"})
NextNested == nested_enter \/ outer_action \/ nested_resume \/ nested_return
SpecNested == InitNested /\ [][NextNested]_vars

\* The indexes the outer action was invoked with, in order.
OuterCalls == SelectSeq(cf_calls, LAMBDA c : c[1] = "outer")

\* The invocations of the inner action during the k-th outer iteration.
InnerCalls(k) ==
    LET at(j) == CHOOSE p \in 1..Len(cf_calls) :
                    /\ cf_calls[p][1] = "outer"
                    /\ Cardinality({q \in 1..p : cf_calls[q][1] = "outer"}) = j
        last == IF k < Len(OuterCalls) THEN at(k + 1) - 1 ELSE Len(cf_calls)
    IN  SubSeq(cf_calls, at(k) + 1, last)

\* C20: started with current_index = 0, cursive_for(0, 3, 1, action) whose
\* action calls cursive_for(0, 2, 1, inner) does not invoke the outer action
\* once for each of 0, 1, 2 (it never reaches 2 and never returns), and the
\* inner action is not invoked with 0, 1 on each outer iteration (from the
\* second outer iteration on it is never invoked with 0).
C20_NestingBreaks ==
    cf_args = <<0, OuterEnd, 1>> =>
        /\ cf_status # "returned"
        /\ \A k \in 1..Len(OuterCalls) : OuterCalls[k][2] # 2
        /\ OuterCalls # << <<"outer", 0>>, <<"outer", 1>>, <<"outer", 2>> >>
        /\ \A k \in 2..Len(OuterCalls) : <<"inner", 0>> \notin {InnerCalls(k)[j] : j \in 1..Len(InnerCalls(k))}
        /\ cf_status = "RecursionError" =>
              \E k \in 1..Len(OuterCalls) : InnerCalls(k) # << <<"inner", 0>>, <<"inner", 1>> >>

\* The nested run has ended: the outer action was invoked with 0 and then
\* with 1 more than once, and its second iteration invoked the inner action
\* with 1 only.
C20_Witness ==
    /\ cf_args = <<0, OuterEnd, 1>>
    /\ cf_status = "RecursionError"
    /\ Len(OuterCalls) >= 3
    /\ SubSeq(OuterCalls, 1, 3) = << <<"outer", 0>>, <<"outer", 1>>, <<"outer", 1>> >>
    /\ InnerCalls(1) = << <<"inner", 0>>, <<"inner", 1>> >>
    /\ InnerCalls(2) = << <<"inner", 1>> >>

====
